---- MODULE Spec2Model ----
(***************************************************************************)
(* asterisk-mqtt: the AMI event accessor, the hangup-cause table and the   *)
(* call correlator (internal/ami, internal/correlator), as a state machine *)
(* that feeds one record at a time to Correlator.Process.                  *)
(*                                                                         *)
(* Time.  A time.Time is a natural number of seconds; ZeroTime is the zero *)
(* value of time.Time, the value a callState's ringTime and answerTime     *)
(* have until they are assigned.  The clock is time.Now (Correlator.New),  *)
(* which never reads the zero instant and is taken to be non-decreasing,   *)
(* so clock readings range over FirstTime..MaxTime.  Durations are the     *)
(* differences of clock readings, in seconds.                              *)
(***************************************************************************)
EXTENDS Integers, Sequences, FiniteSets, TLC

\* ------------------------------------------------------------------ bounds
MaxTime == 3        \* the last clock reading
MaxChanges == 3     \* a bridge session reads on until Process returned this many changes
MaxPairs == 3       \* the most pairs of an Event handed to the accessors
MaxLines == 4       \* the most lines of a stream handed to a Parser
MaxSessions == 2    \* run starts at most this many sessions
MaxCalls == 5       \* goroutines make at most this many calls on a MockPublisher

\* ------------------------------------------------------- the input alphabet
ZeroTime == 0
FirstTime == 1
CallIds == {"c1", "c2"}
Absent == "absent"  \* marks a header the record does not carry

\* ------------------------------------------------------------- ami.Event
\* An Event is its headers: a sequence of (Key, Value) pairs in wire order.
RECURSIVE NewEvent(_)
NewEvent(kvs) ==
    IF Len(kvs) < 2 THEN << >>
    ELSE <<[Key |-> kvs[1], Value |-> kvs[2]]>> \o NewEvent(SubSeq(kvs, 3, Len(kvs)))

\* first matching header wins; "" when there is none
RECURSIVE GetFrom(_, _, _)
GetFrom(e, key, i) ==
    IF i > Len(e) THEN ""
    ELSE IF e[i].Key = key THEN e[i].Value
    ELSE GetFrom(e, key, i + 1)

\* (mutation: the last matching header wins)
Get_LastWins(e, key) ==
    LET hits == { i \in 1..Len(e) : e[i].Key = key }
    IN  IF hits = {} THEN "" ELSE e[CHOOSE i \in hits : \A j \in hits : j <= i].Value
Get(e, key) == GetFrom(e, key, 1)

Type(e) == Get(e, "Event")

IsResponse(e) == Get(e, "Response") # ""

\* The characters of the header values that reach strconv.Atoi.
Chars(s) ==
    CASE s = "" -> << >>
      [] s = "0" -> <<"0">>
      [] s = "5" -> <<"5">>
      [] s = "16" -> <<"1", "6">>
      [] s = "17" -> <<"1", "7">>
      [] s = "+16" -> <<"+", "1", "6">>
      [] s = "-1" -> <<"-", "1">>
      [] s = "127" -> <<"1", "2", "7">>
      [] s = "16x" -> <<"1", "6", "x">>
      [] s = "abc" -> <<"a", "b", "c">>

DigitChars == {"0", "1", "2", "3", "4", "5", "6", "7", "8", "9"}

DigitVal(c) ==
    CASE c = "0" -> 0 [] c = "1" -> 1 [] c = "2" -> 2 [] c = "3" -> 3
      [] c = "4" -> 4 [] c = "5" -> 5 [] c = "6" -> 6 [] c = "7" -> 7
      [] c = "8" -> 8 [] c = "9" -> 9

RECURSIVE DigitsVal(_)
DigitsVal(cs) ==
    IF cs = << >> THEN 0
    ELSE 10 * DigitsVal(SubSeq(cs, 1, Len(cs) - 1)) + DigitVal(cs[Len(cs)])

\* strconv.Atoi with its error dropped: an optional sign, then decimal
\* digits only; 0 on a syntax error.
Atoi(s) ==
    LET cs == Chars(s)
        signed == cs # << >> /\ cs[1] \in {"+", "-"}
        body == IF signed THEN Tail(cs) ELSE cs
    IN  IF body = << >> \/ \E i \in 1..Len(body) : body[i] \notin DigitChars
        THEN 0
        ELSE IF signed /\ cs[1] = "-" THEN 0 - DigitsVal(body) ELSE DigitsVal(body)

\* (mutation: a missing header is reported as -1)
GetInt_Missing(e, key) == IF Get(e, key) = "" THEN 0 - 1 ELSE Atoi(Get(e, key))
GetInt(e, key) == Atoi(Get(e, key))

\* ------------------------------------------------------- correlator types
StateRinging == "ringing"
StateAnswered == "answered"
StateHungUp == "hungup"

Endpoint(ext, name) == [Extension |-> ext, Name |-> name]

HangupCauseCodes == {0, 16, 17, 18, 19, 21, 31, 34, 127}

HangupCause(code) ==
    CASE code = 0 -> [Name |-> "unknown", Description |-> "Unknown or no cause provided"]
      [] code = 16 -> [Name |-> "normal_clearing", Description |-> "The call was hung up normally by one of the parties"]
      [] code = 17 -> [Name |-> "user_busy", Description |-> "The destination was busy"]
      [] code = 18 -> [Name |-> "no_answer", Description |-> "The destination did not answer"]
      [] code = 19 -> [Name |-> "no_answer", Description |-> "The destination did not answer within the timeout"]
      [] code = 21 -> [Name |-> "call_rejected", Description |-> "The call was rejected by the destination"]
      [] code = 31 -> [Name |-> "normal_unspecified", Description |-> "Normal call clearing, unspecified cause"]
      [] code = 34 -> [Name |-> "congestion", Description |-> "All circuits are busy or no circuit is available"]
      [] code = 127 -> [Name |-> "interworking", Description |-> "An interworking error occurred"]

\* A CallStateChange; the fields a state does not set keep Go's zero values.
CallStateChange(state, id, from, to, ts, ringDur, cause, desc, code, talkDur, totalDur) ==
    [State |-> state, CallID |-> id, From |-> from, To |-> to, Timestamp |-> ts,
     RingDuration |-> ringDur, Cause |-> cause, CauseDescription |-> desc,
     CauseCode |-> code, TalkDuration |-> talkDur, TotalDuration |-> totalDur]

callState(id, from, to) ==
    [linkedID |-> id, from |-> from, to |-> to,
     ringTime |-> ZeroTime, answerTime |-> ZeroTime,
     answered |-> FALSE, rung |-> FALSE, cancelled |-> FALSE]

IsZero(t) == t = ZeroTime

\* (mutation: the earlier instant minus the later one)
SubSeconds_Reversed(t2, t1) == t1 - t2
\* now.Sub(t).Seconds()
SubSeconds(t2, t1) == t2 - t1

\* ------------------------------------------------------------- variables
VARIABLES
    calls,      \* Correlator.calls: Linkedid -> callState
    now,        \* the last reading of Correlator.clock
    evt,        \* the record handed to Process in the last step
    out,        \* what that call of Process returned
    trail,      \* per active call id: the changes returned for its CallRecord
    seen,       \* the (call id, state) pairs of all changes returned so far
    created,    \* the call ids a Newchannel was processed for, and no primary-leg Hangup since
    pc,         \* where the loop of runSession stands
    queue,      \* the changes of the current record not yet through publishChange
    published,  \* the messages handed to Publisher.Publish, in call order
    returned,   \* the changes Process returned in the session, in order
    pubErr,     \* what the last call of Publish returned: "nil" or "error"
    mock,       \* the MockPublisher: its messages, closed and err fields
    mu,         \* MockPublisher.mu: 0 when free, else the goroutine holding it
    gor,        \* per goroutine: where it is in its MockPublisher call, and the call
    mret,       \* the last MockPublisher call that returned, and what it returned
    took,       \* the Publish calls that returned, in order: payload and return value
    resetAt,    \* Len(took) when Reset last ran
    ncalls,     \* the MockPublisher calls made so far
    cfgIn,      \* the config file Load is called on
    cfgOut,     \* what Load returned: its *Config and its error
    arg,        \* an Event and a key, the receiver and argument of an accessor call
    res,        \* what Get and GetInt returned for arg
    stream,     \* the lines of the byte stream a Parser reads
    pos,        \* the line the Parser's scanner is at
    scanErr,    \* the scanner's sticky error: "nil", "EOF", "TooLong" or "Drained"
    parsed,     \* the Events Parser.Next returned with true, in order
    last,       \* what the last call of Parser.Next returned
    ctx,        \* the daemon's context: "live" or "cancelled"
    conn,       \* the AMI connection of the session: "none", "open" or "closed"
    err,        \* what the last runSession returned
    sessions,   \* how many sessions run has started
    pubClosed   \* whether the publisher was closed

accessorVars == <<arg, res>>
parserVars == <<stream, pos, scanErr, parsed, last>>
daemonVars == <<ctx, conn, err, sessions, pubClosed>>
mockVars == <<mock, mu, gor, mret, took, resetAt, ncalls>>
configVars == <<cfgIn, cfgOut>>

vars == <<calls, now, evt, out, trail, seen, created, pc, queue, published, returned, pubErr,
         mock, mu, gor, mret, took, resetAt, ncalls, cfgIn, cfgOut,
          arg, res, stream, pos, scanErr, parsed, last, ctx, conn, err, sessions, pubClosed>>

\* map helpers: c[k] = v, and delete(c, k)
\* (mutation: the Correlator holds one call at a time)
Put_Single(c, k, v) == [x \in {k} |-> v]
Put(c, k, v) == [id \in DOMAIN c \cup {k} |-> IF id = k THEN v ELSE c[id]]
\* (mutation: the entry is never deleted)
Delete_Kept(c, k) == c
\* (mutation: the entry is kept, with its flags and timestamps cleared)
Delete_Cleared(c, k) ==
    [id \in DOMAIN c |->
        IF id = k
        THEN [linkedID |-> k, from |-> c[k].from, to |-> c[k].to,
              ringTime |-> ZeroTime, answerTime |-> ZeroTime,
              answered |-> FALSE, rung |-> FALSE, cancelled |-> FALSE]
        ELSE c[id]]
Delete(c, k) == [id \in DOMAIN c \ {k} |-> c[id]]
NoCalls == [id \in {} |-> callState(id, Endpoint("", ""), Endpoint("", ""))]

\* what a handler hands back: the calls map after it, its return value, and
\* whether it read the clock
Result(c, changes, read) == [calls |-> c, out |-> changes, read |-> read]

ActiveCalls == Cardinality(DOMAIN calls)

\* ------------------------------------------------------------- handlers
\* a handler returning nil, before (Nil) or after (NilAt) it read the clock
Nil(c) == Result(c, << >>, FALSE)
NilAt(c) == Result(c, << >>, TRUE)

\* (mutation: the last Newchannel of a call id wins)
handleNewchannel_Overwrite(c, e, linkedID) ==
    Nil(Put(c, linkedID,
            callState(linkedID,
                      Endpoint(Get(e, "CallerIDNum"), Get(e, "CallerIDName")),
                      Endpoint(Get(e, "Exten"), ""))))

handleNewchannel(c, e, linkedID) ==
    IF linkedID \in DOMAIN c THEN Nil(c)
    ELSE Nil(Put(c, linkedID,
                 callState(linkedID,
                           Endpoint(Get(e, "CallerIDNum"), Get(e, "CallerIDName")),
                           Endpoint(Get(e, "Exten"), ""))))

\* (mutation: a DialBegin for an unknown call id opens a CallRecord)
handleDialBegin_Creates(c, e, linkedID) ==
    LET cs == IF linkedID \in DOMAIN c THEN c[linkedID]
              ELSE callState(linkedID, Endpoint("", ""), Endpoint("", ""))
        name == Get(e, "DestCallerIDName")
    IN  IF cs.to.Name = "" /\ name # ""
        THEN Nil(Put(c, linkedID, [cs EXCEPT !.to.Name = name]))
        ELSE Nil(Put(c, linkedID, cs))

\* (mutation: the last name wins)
handleDialBegin_LastWins(c, e, linkedID) ==
    IF linkedID \notin DOMAIN c THEN Nil(c)
    ELSE LET cs == c[linkedID]
             name == Get(e, "DestCallerIDName")
         IN  IF name # ""
             THEN Nil(Put(c, linkedID, [cs EXCEPT !.to.Name = name]))
             ELSE Nil(c)

handleDialBegin(c, e, linkedID) ==
    IF linkedID \notin DOMAIN c THEN Nil(c)
    ELSE LET cs == c[linkedID]
             name == Get(e, "DestCallerIDName")
         IN  IF cs.to.Name = "" /\ name # ""
             THEN Nil(Put(c, linkedID, [cs EXCEPT !.to.Name = name]))
             ELSE Nil(c)

\* (mutation: a repeated "Ringing" or "Up" stamps the time before the flag is
\* looked at)
handleNewstate_Restamp(c, e, linkedID, t) ==
    IF linkedID \notin DOMAIN c THEN Nil(c)
    ELSE LET cs == c[linkedID]
             stateDesc == Get(e, "ChannelStateDesc")
         IN  CASE stateDesc = "Ringing" ->
                    IF cs.rung
                    THEN NilAt(Put(c, linkedID, [cs EXCEPT !.ringTime = t]))
                    ELSE Result(Put(c, linkedID, [cs EXCEPT !.rung = TRUE, !.ringTime = t]),
                                <<CallStateChange(StateRinging, linkedID, cs.from, cs.to, t,
                                                  0, "", "", 0, 0, 0)>>,
                                TRUE)
               [] stateDesc = "Up" ->
                    IF cs.answered
                    THEN NilAt(Put(c, linkedID, [cs EXCEPT !.answerTime = t]))
                    ELSE LET ringDur == IF ~IsZero(cs.ringTime)
                                        THEN SubSeconds(t, cs.ringTime) ELSE 0
                         IN  Result(Put(c, linkedID,
                                        [cs EXCEPT !.answered = TRUE, !.answerTime = t]),
                                    <<CallStateChange(StateAnswered, linkedID, cs.from, cs.to, t,
                                                      ringDur, "", "", 0, 0, 0)>>,
                                    TRUE)
               [] OTHER -> NilAt(c)

\* (mutation: the ring time is subtracted without looking whether it was set)
handleNewstate_RingFromZero(c, e, linkedID, t) ==
    IF linkedID \notin DOMAIN c THEN Nil(c)
    ELSE LET cs == c[linkedID]
             stateDesc == Get(e, "ChannelStateDesc")
         IN  CASE stateDesc = "Ringing" ->
                    IF cs.rung THEN NilAt(c)
                    ELSE Result(Put(c, linkedID, [cs EXCEPT !.rung = TRUE, !.ringTime = t]),
                                <<CallStateChange(StateRinging, linkedID, cs.from, cs.to, t,
                                                  0, "", "", 0, 0, 0)>>,
                                TRUE)
               [] stateDesc = "Up" ->
                    IF cs.answered THEN NilAt(c)
                    ELSE Result(Put(c, linkedID,
                                    [cs EXCEPT !.answered = TRUE, !.answerTime = t]),
                                <<CallStateChange(StateAnswered, linkedID, cs.from, cs.to, t,
                                                  SubSeconds(t, cs.ringTime), "", "", 0, 0, 0)>>,
                                TRUE)
               [] OTHER -> NilAt(c)

\* (mutation: the change is labelled with the leg the notification came from)
handleNewstate_LegId(c, e, linkedID, t) ==
    IF linkedID \notin DOMAIN c THEN Nil(c)
    ELSE LET cs == c[linkedID]
             stateDesc == Get(e, "ChannelStateDesc")
             leg == Get(e, "Uniqueid")
         IN  CASE stateDesc = "Ringing" ->
                    IF cs.rung THEN NilAt(c)
                    ELSE Result(Put(c, linkedID, [cs EXCEPT !.rung = TRUE, !.ringTime = t]),
                                <<CallStateChange(StateRinging, leg, cs.from, cs.to, t,
                                                  0, "", "", 0, 0, 0)>>,
                                TRUE)
               [] stateDesc = "Up" ->
                    IF cs.answered THEN NilAt(c)
                    ELSE LET ringDur == IF ~IsZero(cs.ringTime)
                                        THEN SubSeconds(t, cs.ringTime) ELSE 0
                         IN  Result(Put(c, linkedID,
                                        [cs EXCEPT !.answered = TRUE, !.answerTime = t]),
                                    <<CallStateChange(StateAnswered, leg, cs.from, cs.to, t,
                                                      ringDur, "", "", 0, 0, 0)>>,
                                    TRUE)
               [] OTHER -> NilAt(c)

handleNewstate(c, e, linkedID, t) ==
    IF linkedID \notin DOMAIN c THEN Nil(c)
    ELSE LET cs == c[linkedID]
             stateDesc == Get(e, "ChannelStateDesc")
         IN  CASE stateDesc = "Ringing" ->
                    IF cs.rung THEN NilAt(c)
                    ELSE Result(Put(c, linkedID, [cs EXCEPT !.rung = TRUE, !.ringTime = t]),
                                <<CallStateChange(StateRinging, linkedID, cs.from, cs.to, t,
                                                  0, "", "", 0, 0, 0)>>,
                                TRUE)
               [] stateDesc = "Up" ->
                    IF cs.answered THEN NilAt(c)
                    ELSE LET ringDur == IF ~IsZero(cs.ringTime)
                                        THEN SubSeconds(t, cs.ringTime) ELSE 0
                         IN  Result(Put(c, linkedID,
                                        [cs EXCEPT !.answered = TRUE, !.answerTime = t]),
                                    <<CallStateChange(StateAnswered, linkedID, cs.from, cs.to, t,
                                                      ringDur, "", "", 0, 0, 0)>>,
                                    TRUE)
               [] OTHER -> NilAt(c)

\* (mutation: the flag follows the last DialStatus)
handleDialEnd_Clears(c, e, linkedID) ==
    IF linkedID \notin DOMAIN c THEN Nil(c)
    ELSE Nil(Put(c, linkedID,
                 [c[linkedID] EXCEPT !.cancelled = (Get(e, "DialStatus") = "CANCEL")]))

handleDialEnd(c, e, linkedID) ==
    IF linkedID \notin DOMAIN c THEN Nil(c)
    ELSE IF Get(e, "DialStatus") = "CANCEL"
         THEN Nil(Put(c, linkedID, [c[linkedID] EXCEPT !.cancelled = TRUE]))
         ELSE Nil(c)

CancelledCause ==
    [Name |-> "cancelled",
     Description |-> "The call was cancelled by the caller before being answered"]
UnknownCause ==
    [Name |-> "unknown", Description |-> "Unknown or no cause provided"]

\* (mutation: the cancellation overrides the cause of an answered call too)
ResolveCause_AnyCancel(cs, causeCode) ==
    IF cs.cancelled THEN CancelledCause
    ELSE IF causeCode \in HangupCauseCodes THEN HangupCause(causeCode)
    ELSE UnknownCause

\* (mutation: a code of the table is reported before the cancellation is
\* looked at)
ResolveCause_CodeFirst(cs, causeCode) ==
    IF causeCode \in HangupCauseCodes THEN HangupCause(causeCode)
    ELSE IF cs.cancelled /\ ~cs.answered THEN CancelledCause
    ELSE UnknownCause

\* the cause name and description handleHangup reports for a callState
ResolveCause(cs, causeCode) ==
    IF cs.cancelled /\ ~cs.answered THEN CancelledCause
    ELSE IF causeCode \in HangupCauseCodes THEN HangupCause(causeCode)
    ELSE UnknownCause

\* (mutation: the talk time is counted from the ring)
talkDur_FromRing(cs, t) ==
    IF cs.answered /\ ~IsZero(cs.ringTime) THEN SubSeconds(t, cs.ringTime) ELSE 0
talkDur(cs, t) ==
    IF cs.answered /\ ~IsZero(cs.answerTime) THEN SubSeconds(t, cs.answerTime) ELSE 0

\* (mutation: the total time is counted from the answer)
totalDur_FromAnswer(cs, t) ==
    IF ~IsZero(cs.answerTime) THEN SubSeconds(t, cs.answerTime) ELSE 0
totalDur(cs, t) ==
    IF ~IsZero(cs.ringTime) THEN SubSeconds(t, cs.ringTime) ELSE 0

\* (mutation: the hangup of one call reports every active call as hung up)
finalize_AllCalls(c, e, linkedID, t) ==
    LET causeCode == GetInt(e, "Cause")
        changeOf(id) ==
            IF id \notin DOMAIN c THEN << >>
            ELSE <<CallStateChange(StateHungUp, id, c[id].from, c[id].to, t,
                                   0, ResolveCause(c[id], causeCode).Name,
                                   ResolveCause(c[id], causeCode).Description, causeCode,
                                   talkDur(c[id], t), totalDur(c[id], t))>>
    IN  Result(Delete(c, linkedID), changeOf("c1") \o changeOf("c2"), TRUE)
\* the primary leg has hung up: report the call and drop its callState
finalize(c, e, linkedID, t) ==
    LET cs == c[linkedID]
        causeCode == GetInt(e, "Cause")
        cause == ResolveCause(cs, causeCode)
    IN  Result(Delete(c, linkedID),
               <<CallStateChange(StateHungUp, linkedID, cs.from, cs.to, t,
                                 0, cause.Name, cause.Description, causeCode,
                                 talkDur(cs, t), totalDur(cs, t))>>,
               TRUE)

\* (mutation: the Hangup of any leg finalizes the call)
handleHangup_AnyLeg(c, e, linkedID, t) ==
    IF linkedID \notin DOMAIN c THEN Nil(c)
    ELSE finalize(c, e, linkedID, t)

\* (mutation: a call that never rang is dropped without a HungUp change)
handleHangup_SilentUnrung(c, e, linkedID, t) ==
    IF linkedID \notin DOMAIN c THEN Nil(c)
    ELSE IF Get(e, "Uniqueid") # linkedID THEN Nil(c)
    ELSE IF ~c[linkedID].rung THEN NilAt(Delete(c, linkedID))
    ELSE finalize(c, e, linkedID, t)

handleHangup(c, e, linkedID, t) ==
    IF linkedID \notin DOMAIN c THEN Nil(c)
    ELSE IF Get(e, "Uniqueid") # linkedID THEN Nil(c)
    ELSE finalize(c, e, linkedID, t)

\* (mutation: an acknowledgement is dispatched like any other record)
Process_ResponseDispatched(c, e, t) ==
    LET linkedID == Get(e, "Linkedid")
    IN  IF linkedID = "" THEN Nil(c)
        ELSE CASE Type(e) = "Newchannel" -> handleNewchannel(c, e, linkedID)
               [] Type(e) = "DialBegin" -> handleDialBegin(c, e, linkedID)
               [] Type(e) = "Newstate" -> handleNewstate(c, e, linkedID, t)
               [] Type(e) = "DialEnd" -> handleDialEnd(c, e, linkedID)
               [] Type(e) = "Hangup" -> handleHangup(c, e, linkedID, t)
               [] OTHER -> Nil(c)

\* Correlator.Process, with t the reading the clock gives during the call
Process(c, e, t) ==
    IF IsResponse(e) THEN Nil(c)
    ELSE LET linkedID == Get(e, "Linkedid")
         IN  IF linkedID = "" THEN Nil(c)
             ELSE CASE Type(e) = "Newchannel" -> handleNewchannel(c, e, linkedID)
                    [] Type(e) = "DialBegin" -> handleDialBegin(c, e, linkedID)
                    [] Type(e) = "Newstate" -> handleNewstate(c, e, linkedID, t)
                    [] Type(e) = "DialEnd" -> handleDialEnd(c, e, linkedID)
                    [] Type(e) = "Hangup" -> handleHangup(c, e, linkedID, t)
                    [] OTHER -> Nil(c)

\* ------------------------------------------------------ the record stream
\* a header the record carries, or nothing when its value is Absent
Hdr(key, v) == IF v = Absent THEN << >> ELSE <<key, v>>

\* The records of the stream.  Call "c1" is seen with every variation of its
\* headers; "c2" is a second call in flight at the same time, seen with one
\* caller, ringing, and ended by its primary leg.
NewchannelEvents ==
    { NewEvent(<<"Event", "Newchannel">> \o Hdr("CallerIDNum", p[1])
               \o Hdr("CallerIDName", p[2]) \o Hdr("Exten", p[3])
               \o <<"Uniqueid", p[4], "Linkedid", p[4]>>) :
        p \in { <<"1986", "Martin", "21", "c1">>,
                <<"21", Absent, "1986", "c1">>,
                <<"22", Absent, "1986", "c2">> } }

DialBeginEvents ==
    { NewEvent(<<"Event", "DialBegin">> \o Hdr("DestCallerIDName", n)
               \o <<"Uniqueid", "c1", "Linkedid", "c1">>) :
        n \in {"Kitchen", Absent} }

NewstateEvents ==
    { NewEvent(<<"Event", "Newstate", "ChannelStateDesc", p[1],
                 "Uniqueid", p[2], "Linkedid", p[3]>>) :
        p \in { <<"Ringing", "leg.2", "c1">>, <<"Ringing", "c1", "c1">>,
                <<"Up", "leg.2", "c1">>, <<"Up", "c1", "c1">>,
                <<"Ring", "c1", "c1">>, <<"Ringing", "leg.2", "c2">> } }

DialEndEvents ==
    { NewEvent(<<"Event", "DialEnd", "DialStatus", d, "Uniqueid", "c1", "Linkedid", "c1">>) :
        d \in {"CANCEL", "ANSWER"} }

\* the Hangup of the primary leg (Uniqueid = Linkedid)
PrimaryHangupEvents ==
    { NewEvent(<<"Event", "Hangup">> \o Hdr("Cause", p[1])
               \o <<"Uniqueid", p[2], "Linkedid", p[2]>>) :
        p \in { <<"16", "c1">>, <<"127", "c1">>, <<"5", "c1">>, <<"abc", "c1">>,
                <<Absent, "c1">>, <<"16", "c2">> } }

\* the Hangup of another leg, or of no leg at all
SecondaryHangupEvents ==
    { NewEvent(<<"Event", "Hangup", "Cause", "16">> \o Hdr("Uniqueid", p[1])
               \o <<"Linkedid", p[2]>>) :
        p \in { <<"leg.2", "c1">>, <<"c2", "c1">>, <<Absent, "c1">>, <<"leg.2", "c2">> } }

HangupEvents == PrimaryHangupEvents \cup SecondaryHangupEvents

\* an acknowledgement, a record without a call id, an unrecognised kind
OtherEvents ==
    { NewEvent(<<"Response", "Success", "Event", "Hangup", "Uniqueid", "c1", "Linkedid", "c1">>),
      NewEvent(<<"Event", "Hangup", "Cause", "16", "Uniqueid", "c1">>),
      NewEvent(<<"Event", "VarSet", "Uniqueid", "c1", "Linkedid", "c1">>) }

\* ---------------------------------------------------------------- actions
\* no accessor call, no Parser and no daemon yet
IdleAccessor == arg = << >> /\ res = << >>
IdleParser == stream = << >> /\ pos = 1 /\ scanErr = "nil" /\ parsed = << >> /\ last = << >>
IdleDaemon ==
    ctx = "live" /\ conn = "none" /\ err = "nil" /\ sessions = 0 /\ pubClosed = FALSE

\* a MockPublisher as NewMockPublisher makes it, no call on it yet
NewMockPublisher == [messages |-> << >>, closed |-> FALSE, err |-> "nil"]
Goroutines == {1, 2}
NoCall == [at |-> "idle"]
IdleMock ==
    /\ mock = NewMockPublisher
    /\ mu = 0
    /\ gor = [g \in Goroutines |-> NoCall]
    /\ mret = << >>
    /\ took = << >>
    /\ resetAt = 0
    /\ ncalls = 0
\* no call of Load yet
IdleConfig == cfgIn = << >> /\ cfgOut = << >>

\* a Correlator as New makes it, and a session loop about to read
IdleCorrelator ==
    /\ calls = NoCalls
    /\ now = FirstTime
    /\ evt = << >>
    /\ out = << >>
    /\ trail = [id \in {} |-> << >>]
    /\ seen = {}
    /\ created = {}
IdleBridge ==
    /\ pc = "next"
    /\ queue = << >>
    /\ published = << >>
    /\ returned = << >>
    /\ pubErr = "nil"

Init ==
    /\ IdleCorrelator
    /\ IdleMock
    /\ IdleConfig
    /\ IdleBridge
    /\ IdleAccessor
    /\ IdleParser
    /\ IdleDaemon

\* the changes of a return value that carry call id `id`
ChangesOf(changes, id) == SelectSeq(changes, LAMBDA ch : ch.CallID = id)

\* the history of the records handed to one Correlator: a record Process
\* dispatches as a Newchannel opens its call id, one it dispatches as a Hangup
\* of the primary leg (Uniqueid = Linkedid) closes it
CreatedAfter(ids, e) ==
    IF IsResponse(e) \/ Get(e, "Linkedid") = "" THEN ids
    ELSE IF Type(e) = "Newchannel" THEN ids \cup {Get(e, "Linkedid")}
    ELSE IF Type(e) = "Hangup" /\ Get(e, "Uniqueid") = Get(e, "Linkedid")
         THEN ids \ {Get(e, "Linkedid")}
    ELSE ids

\* One iteration of the session loop: the record e is handed to Process, which
\* reads the clock as t if it reads it at all, and the changes it returns are
\* collected; `history` says whether the session keeps `seen`.  Nothing is
\* published in these sessions.
Deliver(e, history) ==
    \E t \in now..MaxTime : \E r \in {Process(calls, e, t)} :
            /\ UNCHANGED <<pc, queue, published, returned, pubErr>>
            /\ UNCHANGED <<accessorVars, parserVars, daemonVars, mockVars, configVars>>
            /\ r.read \/ t = now
            /\ now' = t
            /\ evt' = e
            /\ calls' = r.calls
            /\ out' = r.out
            /\ trail' = [id \in DOMAIN r.calls |->
                           (IF id \in DOMAIN calls THEN trail[id] ELSE << >>)
                           \o ChangesOf(r.out, id)]
            /\ seen' = IF history
                       THEN seen \cup { <<r.out[i].CallID, r.out[i].State>> :
                                           i \in 1..Len(r.out) }
                       ELSE seen
            /\ created' = CreatedAfter(created, e)

\* The session of the lifecycle claims: call "c1" has one caller.
LifecycleFeed ==
    { e \in NewchannelEvents \cup DialBeginEvents \cup NewstateEvents
            \cup DialEndEvents \cup HangupEvents \cup OtherEvents :
        Get(e, "CallerIDNum") # "21" }

Newchannel == \E e \in NewchannelEvents \cap LifecycleFeed : Deliver(e, FALSE)
DialBegin == \E e \in DialBeginEvents \cap LifecycleFeed : Deliver(e, FALSE)
Newstate == \E e \in NewstateEvents \cap LifecycleFeed : Deliver(e, FALSE)
DialEnd == \E e \in DialEndEvents \cap LifecycleFeed : Deliver(e, FALSE)
Hangup == \E e \in HangupEvents \cap LifecycleFeed : Deliver(e, FALSE)
Other == \E e \in OtherEvents \cap LifecycleFeed : Deliver(e, FALSE)

Next == Newchannel \/ DialBegin \/ Newstate \/ DialEnd \/ Hangup \/ Other

Spec == Init /\ [][Next]_vars

\* A session keeping `seen`, the history of what was ever emitted, fed with
\* the records that create, ring, answer, cancel and end the two calls.
HistoryFeed ==
    { e \in NewchannelEvents \cup NewstateEvents \cup DialEndEvents \cup HangupEvents :
        /\ Get(e, "CallerIDNum") # "21"
        /\ Get(e, "Cause") \in {"", "16"}
        /\ Get(e, "ChannelStateDesc") \in {"", "Ringing", "Up"}
        /\ Get(e, "DialStatus") \in {"", "CANCEL"}
        /\ Get(e, "Uniqueid") \in {Get(e, "Linkedid"), "leg.2"}
        /\ Type(e) = "Newstate" => Get(e, "Uniqueid") = "leg.2" }

NewchannelH == \E e \in NewchannelEvents \cap HistoryFeed : Deliver(e, TRUE)
NewstateH == \E e \in NewstateEvents \cap HistoryFeed : Deliver(e, TRUE)
DialEndH == \E e \in DialEndEvents \cap HistoryFeed : Deliver(e, TRUE)
HangupH == \E e \in HangupEvents \cap HistoryFeed : Deliver(e, TRUE)

NextH == NewchannelH \/ NewstateH \/ DialEndH \/ HangupH

SpecH == Init /\ [][NextH]_vars

\* The session of the endpoint claims: call "c1" is created by either of two
\* callers on its primary leg or by its dialled leg, named by either of two
\* DialBegin records, cancelled, and ended and created again; `seen` is kept.
LegNewchannelEvents ==
    { NewEvent(<<"Event", "Newchannel", "CallerIDNum", "21", "Exten", "s",
                 "Uniqueid", "leg.2", "Linkedid", "c1">>) }

RenameDialBeginEvents ==
    { NewEvent(<<"Event", "DialBegin", "DestCallerIDName", "Office",
                 "Uniqueid", "c1", "Linkedid", "c1">>) }

OddDialEndEvents ==
    { NewEvent(<<"Event", "DialEnd", "DialStatus", "cancel",
                 "Uniqueid", "c1", "Linkedid", "c1">>) }

EndpointFeed ==
    { e \in NewchannelEvents \cup LegNewchannelEvents \cup DialBeginEvents
            \cup RenameDialBeginEvents \cup NewstateEvents \cup DialEndEvents
            \cup OddDialEndEvents \cup HangupEvents :
        /\ Get(e, "Linkedid") = "c1"
        /\ Get(e, "Cause") \in {"", "16"}
        /\ Get(e, "ChannelStateDesc") \in {"", "Ringing", "Up"}
        /\ Get(e, "Uniqueid") \in {"c1", "leg.2"}
        /\ Type(e) = "Newstate" => Get(e, "Uniqueid") = "leg.2" }

NewchannelE == \E e \in (NewchannelEvents \cup LegNewchannelEvents) \cap EndpointFeed : Deliver(e, TRUE)
DialBeginE == \E e \in (DialBeginEvents \cup RenameDialBeginEvents) \cap EndpointFeed : Deliver(e, TRUE)
NewstateE == \E e \in NewstateEvents \cap EndpointFeed : Deliver(e, TRUE)
DialEndE == \E e \in (DialEndEvents \cup OddDialEndEvents) \cap EndpointFeed : Deliver(e, TRUE)
HangupE == \E e \in HangupEvents \cap EndpointFeed : Deliver(e, TRUE)

NextE == NewchannelE \/ DialBeginE \/ NewstateE \/ DialEndE \/ HangupE

SpecE == Init /\ [][NextE]_vars

\* ------------------------------------------------------ the bridge session
\* cfg.MQTT.TopicPrefix
TopicPrefix == "asterisk"

stateDescriptions(state) ==
    CASE state = StateRinging -> "A call is ringing and waiting to be answered"
      [] state = StateAnswered -> "The call has been answered and parties are now connected"
      [] state = StateHungUp -> "The call has ended"

\* the JSON object of an endpoint: name is left out when empty
endpoint(ep) ==
    IF ep.Name = "" THEN [extension |-> ep.Extension]
    ELSE [extension |-> ep.Extension, name |-> ep.Name]

\* (mutation: the numbers are plain fields with omitempty, left out when 0)
mqttPayload_OmitZero(change) ==
    LET base == [event |-> change.State,
                 description |-> stateDescriptions(change.State),
                 call_id |-> change.CallID,
                 from |-> endpoint(change.From),
                 to |-> endpoint(change.To),
                 timestamp |-> change.Timestamp]
        strings == IF change.State # StateHungUp THEN << >>
                   ELSE (IF change.Cause = "" THEN << >>
                         ELSE [k \in {"cause"} |-> change.Cause])
                        @@ (IF change.CauseDescription = "" THEN << >>
                            ELSE [k \in {"cause_description"} |-> change.CauseDescription])
        numbers == [ring_duration_seconds |-> change.RingDuration,
                    cause_code |-> change.CauseCode,
                    talk_duration_seconds |-> change.TalkDuration,
                    total_duration_seconds |-> change.TotalDuration]
        kept == { k \in DOMAIN numbers : numbers[k] # 0 }
    IN  base @@ strings @@ [k \in kept |-> numbers[k]]

\* the JSON object json.Marshal makes of the mqttPayload of a change: the
\* keys of the pointer fields are there when the pointer was set, those of the
\* strings when the string is not empty.  The timestamp is the clock reading,
\* which RFC3339 renders to the second.
mqttPayload(change) ==
    LET base == [event |-> change.State,
                 description |-> stateDescriptions(change.State),
                 call_id |-> change.CallID,
                 from |-> endpoint(change.From),
                 to |-> endpoint(change.To),
                 timestamp |-> change.Timestamp]
        strings == IF change.State # StateHungUp THEN << >>
                   ELSE (IF change.Cause = "" THEN << >>
                         ELSE [k \in {"cause"} |-> change.Cause])
                        @@ (IF change.CauseDescription = "" THEN << >>
                            ELSE [k \in {"cause_description"} |-> change.CauseDescription])
        pointers == CASE change.State = StateAnswered ->
                           [ring_duration_seconds |-> change.RingDuration]
                      [] change.State = StateHungUp ->
                           [cause_code |-> change.CauseCode,
                            talk_duration_seconds |-> change.TalkDuration,
                            total_duration_seconds |-> change.TotalDuration]
                      [] OTHER -> << >>
    IN  base @@ strings @@ pointers

\* (mutation: the topic names the state before the call id)
publishChange_StateFirst(prefix, change) ==
    [Topic |-> <<prefix, "call", change.State, change.CallID>>,
     Payload |-> mqttPayload(change)]

\* what publishChange hands to Publisher.Publish
publishChange(prefix, change) ==
    [Topic |-> <<prefix, "call", change.CallID, change.State>>,
     Payload |-> mqttPayload(change)]

\* (mutation: the loop goes on to the next record without publishing)
LoopAt_NoWait(q) == "next"
\* the `for _, change := range changes` loop: at its next change, or through
LoopAt(q) == IF q = << >> THEN "next" ELSE "publish"

\* the records of a bridge session: one call, its two legs, and two records
\* Process ignores
BridgeFeed ==
    { e \in NewchannelEvents \cup NewstateEvents \cup HangupEvents \cup OtherEvents :
        /\ Get(e, "Linkedid") \in {"", "c1"}
        /\ Get(e, "CallerIDNum") # "21"
        /\ Get(e, "Cause") \in {"", "16"}
        /\ Get(e, "ChannelStateDesc") \in {"", "Ringing", "Up"}
        /\ Get(e, "Uniqueid") \in {"c1", "leg.2"}
        /\ Type(e) = "Newstate" => Get(e, "Uniqueid") = "leg.2" }

\* parser.Next yields a record e of the feed and Process is called on it,
\* the clock reading one of times
ReadFrom(feed, times) ==
    /\ pc = "next"
    /\ Len(returned) < MaxChanges
    /\ \E e \in feed : \E t \in times : \E r \in {Process(calls, e, t)} :
            /\ r.read \/ t = now
            /\ now' = t
            /\ evt' = e
            /\ calls' = r.calls
            /\ out' = r.out
            /\ trail' = [id \in DOMAIN r.calls |->
                           (IF id \in DOMAIN calls THEN trail[id] ELSE << >>)
                           \o ChangesOf(r.out, id)]
            /\ queue' = r.out
            /\ returned' = returned \o r.out
            /\ pc' = LoopAt(r.out)
            /\ created' = CreatedAfter(created, e)
    /\ UNCHANGED <<seen, published, pubErr>>
    /\ UNCHANGED <<accessorVars, parserVars, daemonVars, mockVars, configVars>>

ReadRecord == ReadFrom(BridgeFeed, now..MaxTime)

\* publishChange builds the message of the next change and calls Publish
Publish ==
    /\ pc = "publish"
    /\ published' = Append(published, publishChange(TopicPrefix, Head(queue)))
    /\ pc' = "inPublish"
    /\ UNCHANGED <<calls, now, evt, out, trail, seen, created, queue, returned, pubErr>>
    /\ UNCHANGED <<accessorVars, parserVars, daemonVars, mockVars, configVars>>

\* token.Wait is over and Publish returns nil: the loop goes on with the next
\* change, or with parser.Next when there is none
PublishReturn ==
    /\ pc = "inPublish"
    /\ pubErr' = "nil"
    /\ queue' = Tail(queue)
    /\ pc' = LoopAt(Tail(queue))
    /\ UNCHANGED <<calls, now, evt, out, trail, seen, created, published, returned>>
    /\ UNCHANGED <<accessorVars, parserVars, daemonVars, mockVars, configVars>>

PublishFails_Retry ==
    /\ pc = "inPublish"
    /\ pubErr' = "error"
    /\ pc' = "publish"
    /\ UNCHANGED <<calls, now, evt, out, trail, seen, created, queue, published, returned>>
    /\ UNCHANGED <<accessorVars, parserVars, daemonVars, mockVars, configVars>>

\* Publish returns token.Error(): runSession logs "publish error" and goes on
\* exactly as after a nil
PublishFails ==
    /\ pc = "inPublish"
    /\ pubErr' = "error"
    /\ queue' = Tail(queue)
    /\ pc' = LoopAt(Tail(queue))
    /\ UNCHANGED <<calls, now, evt, out, trail, seen, created, published, returned>>
    /\ UNCHANGED <<accessorVars, parserVars, daemonVars, mockVars, configVars>>

\* parser.Next reports the end of the stream and runSession returns
StreamEnd ==
    /\ pc = "next"
    /\ pc' = "closed"
    /\ UNCHANGED <<calls, now, evt, out, trail, seen, created, queue, published, returned, pubErr>>
    /\ UNCHANGED <<accessorVars, parserVars, daemonVars, mockVars, configVars>>

NextB == ReadRecord \/ Publish \/ PublishReturn \/ PublishFails \/ StreamEnd

SpecB == Init /\ [][NextB]_vars

\* ------------------------------------------------------ the accessor calls
\* The Events and keys Get and GetInt are called with: up to MaxPairs pairs,
\* keys that differ in case only, values that are integers, signed, empty or
\* no integers.
AccessorKeys == {"Cause", "cause"}
AccessorValues == {"16", "17", "-1", "", "abc", "16x"}

RECURSIVE PairLists(_)
PairLists(n) ==
    IF n = 0 THEN {<< >>}
    ELSE LET shorter == PairLists(n - 1)
         IN  shorter \cup { kvs \o <<k, v>> : kvs \in { l \in shorter : Len(l) = 2 * (n - 1) },
                                                k \in AccessorKeys, v \in AccessorValues }

InitA ==
    /\ IdleCorrelator
    /\ IdleMock
    /\ IdleConfig
    /\ IdleBridge
    /\ IdleParser
    /\ IdleDaemon
    /\ arg \in { [e |-> NewEvent(kvs), key |-> k] :
                    kvs \in PairLists(MaxPairs), k \in AccessorKeys \cup {"Linkedid"} }
    /\ res = << >>

\* e.Get(key) and e.GetInt(key) are called and return
GetCall ==
    /\ res = << >>
    /\ res' = [Get |-> Get(arg.e, arg.key), GetInt |-> GetInt(arg.e, arg.key)]
    /\ UNCHANGED <<calls, now, evt, out, trail, seen, created, pc, queue, published, returned, pubErr>>
    /\ UNCHANGED <<arg, parserVars, daemonVars, mockVars, configVars>>

NextA == GetCall

SpecA == InitA /\ [][NextA]_vars

\* ------------------------------------------------------------ ami.Parser
\* A line is a sequence of pieces: words, the separator ": " and "\r" are one
\* piece each, and Filler stands for a run of bytes as long as the largest
\* token a bufio.Scanner with its default buffer returns (64 KiB). The
\* Key and the Value of a header the Parser builds are sequences of pieces.
Separator == ": "
CR == "\r"
Filler == "x * 65536"
FillerCut == "x * 65530"

BlankLine == << >>
BlankLineCR == <<CR>>
EventLine == <<"Event", Separator, "Hangup", CR>>
TwoSeparatorLine == <<"Cause", Separator, "a", Separator, "b">>
BannerLine == <<"Asterisk Call Manager/2.10.4">>
LongLine == <<"Data", Separator, Filler>>
LinePool == {BlankLine, BlankLineCR, EventLine, TwoSeparatorLine, BannerLine, LongLine}

\* a line with its end-of-line marker is longer than the scanner's buffer
TooLong(line) == \E i \in 1..Len(line) : line[i] = Filler
\* the bytes of such a line that fill the buffer
Buffered(line) ==
    LET i == CHOOSE k \in 1..Len(line) : line[k] = Filler
    IN  IF i = 1 THEN <<Filler>> ELSE SubSeq(line, 1, i - 1) \o <<FillerCut>>

\* bufio.ScanLines drops one trailing "\r" of the line it returns
dropCR(line) ==
    IF Len(line) > 0 /\ line[Len(line)] = CR THEN SubSeq(line, 1, Len(line) - 1) ELSE line

\* scanner.Scan and scanner.Text: the next line, or false once the input has
\* ended or a line did not fit the buffer; after such a line a further call
\* returns what the buffer holds of it, and then false for good
Scan(s, p, serr) ==
    IF serr = "nil" THEN
        IF p > Len(s) THEN [ok |-> FALSE, text |-> << >>, pos |-> p, scanErr |-> "EOF"]
        ELSE IF TooLong(s[p]) THEN [ok |-> FALSE, text |-> << >>, pos |-> p, scanErr |-> "TooLong"]
        ELSE [ok |-> TRUE, text |-> dropCR(s[p]), pos |-> p + 1, scanErr |-> "nil"]
    ELSE IF serr = "TooLong" THEN
        [ok |-> TRUE, text |-> dropCR(Buffered(s[p])), pos |-> p, scanErr |-> "Drained"]
    ELSE [ok |-> FALSE, text |-> << >>, pos |-> p, scanErr |-> serr]

\* strings.TrimRight(line, "\r")
RECURSIVE TrimRight(_)
TrimRight(line) ==
    IF Len(line) > 0 /\ line[Len(line)] = CR THEN TrimRight(SubSeq(line, 1, Len(line) - 1))
    ELSE line

\* strings.Index(line, ": "): the first separator, 0 where Go returns -1
Index(line) ==
    IF \E i \in 1..Len(line) : line[i] = Separator
    THEN CHOOSE i \in 1..Len(line) :
            line[i] = Separator /\ \A j \in 1..(i - 1) : line[j] # Separator
    ELSE 0

\* (mutation: a line without the separator is dropped wherever it stands)
AddLine_DropNoSeparator(headers, line) ==
    LET idx == Index(line)
    IN  IF idx = 0 THEN headers
        ELSE Append(headers, [Key |-> SubSeq(line, 1, idx - 1),
                              Value |-> SubSeq(line, idx + 1, Len(line))])
\* what Next does to its headers with a line that is not blank
AddLine(headers, line) ==
    LET idx == Index(line)
    IN  IF idx = 0 THEN
            IF Len(headers) = 0 THEN headers
            ELSE Append(headers, [Key |-> << >>, Value |-> line])
        ELSE Append(headers, [Key |-> SubSeq(line, 1, idx - 1),
                              Value |-> SubSeq(line, idx + 1, Len(line))])

\* (mutation: the record in progress is lost when the scanner stops)
AtEnd_DropPartial(headers) == [evt |-> << >>, ok |-> FALSE]
\* what Next returns once Scan has returned false
AtEnd(headers) ==
    IF Len(headers) > 0 THEN [evt |-> headers, ok |-> TRUE]
    ELSE [evt |-> << >>, ok |-> FALSE]

\* Parser.Next from scanner position p with the headers collected so far
RECURSIVE NextFrom(_, _, _, _)
NextFrom(s, p, serr, headers) ==
    LET sc == Scan(s, p, serr)
        line == TrimRight(sc.text)
    IN  IF ~sc.ok THEN [pos |-> sc.pos, scanErr |-> sc.scanErr] @@ AtEnd(headers)
        ELSE IF line = << >> THEN
            IF Len(headers) > 0
            THEN [pos |-> sc.pos, scanErr |-> sc.scanErr, evt |-> headers, ok |-> TRUE]
            ELSE NextFrom(s, sc.pos, sc.scanErr, headers)
        ELSE NextFrom(s, sc.pos, sc.scanErr, AddLine(headers, line))

RECURSIVE Streams(_)
Streams(n) ==
    IF n = 0 THEN {<< >>}
    ELSE LET shorter == Streams(n - 1)
         IN  shorter \cup { Append(l, line) : l \in { x \in shorter : Len(x) = n - 1 },
                                              line \in LinePool }

InitP ==
    /\ IdleCorrelator
    /\ IdleMock
    /\ IdleConfig
    /\ IdleBridge
    /\ IdleAccessor
    /\ IdleDaemon
    /\ stream \in Streams(MaxLines)
    /\ pos = 1
    /\ scanErr = "nil"
    /\ parsed = << >>
    /\ last = << >>

\* one call of Parser.Next
ParserNext ==
    \E r \in {NextFrom(stream, pos, scanErr, << >>)} :
        /\ pos' = r.pos
        /\ scanErr' = r.scanErr
        /\ last' = [evt |-> r.evt, ok |-> r.ok]
        /\ parsed' = IF r.ok THEN Append(parsed, r.evt) ELSE parsed
        /\ UNCHANGED <<calls, now, evt, out, trail, seen, created, pc, queue, published, returned, pubErr>>
        /\ UNCHANGED <<stream, accessorVars, daemonVars, mockVars, configVars>>

NextP == ParserNext

SpecP == InitP /\ [][NextP]_vars

\* ------------------------------------------------------------- the daemon
\* main, run and runSession of the bridge. pc is where the main goroutine
\* stands: "dial", "banner", "login" (runSession before its loop), "next",
\* "publish", "inPublish" (its loop), "ended" (runSession has returned err),
\* "wait" (run's select), "returned" (run has returned nil, its only return
\* value), "exit" (main is through). conn is "open" from a successful dial
\* until the session's goroutine or the deferred Close closes it ("closed") or
\* the peer or the network ends it ("broken").
ErrDial == "dial AMI"
ErrBanner == "reading AMI banner"
ErrLogin == "sending login"
ErrClosed == "AMI connection closed"

\* the records of a daemon session: one call that rings and is hung up, and a
\* record Process ignores
DaemonFeed ==
    { e \in BridgeFeed :
        /\ Get(e, "ChannelStateDesc") \in {"", "Ringing"}
        /\ Type(e) = "Hangup" => Get(e, "Uniqueid") = "c1"
        /\ Type(e) \in {"Newchannel", "Newstate", "Hangup", "VarSet"} }

InitD ==
    /\ IdleCorrelator
    /\ IdleMock
    /\ IdleConfig
    /\ queue = << >>
    /\ published = << >>
    /\ returned = << >>
    /\ pubErr = "nil"
    /\ IdleAccessor
    /\ IdleParser
    /\ pc = "dial"
    /\ ctx = "live"
    /\ conn = "none"
    /\ err = "nil"
    /\ sessions = 1
    /\ pubClosed = FALSE

bridgeVars == <<calls, now, evt, out, trail, seen, created, queue, published, returned, pubErr>>

\* SIGINT or SIGTERM arrives and the signal goroutine calls cancel
Cancel ==
    /\ ctx = "live"
    /\ pc # "exit"
    /\ ctx' = "cancelled"
    /\ UNCHANGED <<pc, conn, err, sessions, pubClosed>>
    /\ UNCHANGED <<bridgeVars, accessorVars, parserVars, mockVars, configVars>>

\* the session's goroutine: <-ctx.Done(); conn.Close()
ConnClose ==
    /\ ctx = "cancelled"
    /\ conn = "open"
    /\ conn' = "closed"
    /\ UNCHANGED <<pc, ctx, err, sessions, pubClosed>>
    /\ UNCHANGED <<bridgeVars, accessorVars, parserVars, mockVars, configVars>>

\* the peer closes the connection or the network fails
ServerClose ==
    /\ conn = "open"
    /\ conn' = "broken"
    /\ UNCHANGED <<pc, ctx, err, sessions, pubClosed>>
    /\ UNCHANGED <<bridgeVars, accessorVars, parserVars, mockVars, configVars>>

\* net.DialTimeout succeeds
DialOK ==
    /\ pc = "dial"
    /\ conn' = "open"
    /\ pc' = "banner"
    /\ UNCHANGED <<ctx, err, sessions, pubClosed>>
    /\ UNCHANGED <<bridgeVars, accessorVars, parserVars, mockVars, configVars>>

\* net.DialTimeout fails and runSession returns
DialFails ==
    /\ pc = "dial"
    /\ err' = ErrDial
    /\ pc' = "ended"
    /\ UNCHANGED <<ctx, conn, sessions, pubClosed>>
    /\ UNCHANGED <<bridgeVars, accessorVars, parserVars, mockVars, configVars>>

\* reader.ReadString returns the banner line
BannerOK ==
    /\ pc = "banner"
    /\ conn = "open"
    /\ pc' = "login"
    /\ UNCHANGED <<ctx, conn, err, sessions, pubClosed>>
    /\ UNCHANGED <<bridgeVars, accessorVars, parserVars, mockVars, configVars>>

\* reader.ReadString fails and runSession returns
BannerFails ==
    /\ pc = "banner"
    /\ conn # "open"
    /\ err' = ErrBanner
    /\ conn' = "closed"
    /\ pc' = "ended"
    /\ UNCHANGED <<ctx, sessions, pubClosed>>
    /\ UNCHANGED <<bridgeVars, accessorVars, parserVars, mockVars, configVars>>

\* (mutation: the session goes on with the Correlator of the session before)
Login_SharedCorrelator ==
    /\ pc = "login"
    /\ conn = "open"
    /\ pc' = "next"
    /\ UNCHANGED <<ctx, conn, err, sessions, pubClosed>>
    /\ UNCHANGED <<bridgeVars, accessorVars, parserVars, mockVars, configVars>>
\* conn.Write sends the login; the session makes its Parser and its
\* Correlator and enters its loop
Login ==
    /\ pc = "login"
    /\ conn = "open"
    /\ calls' = NoCalls
    /\ trail' = [id \in {} |-> << >>]
    /\ created' = {}
    /\ pc' = "next"
    /\ UNCHANGED <<ctx, conn, err, sessions, pubClosed>>
    /\ UNCHANGED <<now, evt, out, seen, queue, published, returned, pubErr>>
    /\ UNCHANGED <<accessorVars, parserVars, mockVars, configVars>>

\* conn.Write fails and runSession returns
LoginFails ==
    /\ pc = "login"
    /\ conn # "open"
    /\ err' = ErrLogin
    /\ conn' = "closed"
    /\ pc' = "ended"
    /\ UNCHANGED <<ctx, sessions, pubClosed>>
    /\ UNCHANGED <<bridgeVars, accessorVars, parserVars, mockVars, configVars>>

\* parser.Next yields a record: one that arrives, or one the reader still
\* holds of a connection that is no longer open (the clock of the daemon's
\* sessions is read at one instant: no claim about the daemon is about time)
SessionRead == ReadFrom(DaemonFeed, {now})

\* (mutation: the end of the stream is an error whatever the context says)
SessionEnd_AlwaysError ==
    /\ pc = "next"
    /\ conn # "open"
    /\ err' = ErrClosed
    /\ conn' = "closed"
    /\ pc' = "ended"
    /\ UNCHANGED <<ctx, sessions, pubClosed>>
    /\ UNCHANGED <<bridgeVars, accessorVars, parserVars, mockVars, configVars>>
\* (mutation: the end of the stream hangs up the calls that are active)
SessionEnd_Finalizes ==
    /\ pc = "next"
    /\ conn # "open"
    /\ err' = IF ctx = "cancelled" THEN "nil" ELSE ErrClosed
    /\ conn' = "closed"
    /\ pc' = "ended"
    /\ calls' = NoCalls
    /\ published' = IF calls = NoCalls THEN published
                    ELSE Append(published, [Topic |-> <<TopicPrefix, "call", "c1", StateHungUp>>,
                                            Payload |-> << >>])
    /\ UNCHANGED <<ctx, sessions, pubClosed>>
    /\ UNCHANGED <<now, evt, out, trail, seen, created, queue, returned, pubErr>>
    /\ UNCHANGED <<accessorVars, parserVars, mockVars, configVars>>
\* parser.Next returns false and runSession returns: nil when the context is
\* cancelled, an error otherwise
SessionEnd ==
    /\ pc = "next"
    /\ conn # "open"
    /\ err' = IF ctx = "cancelled" THEN "nil" ELSE ErrClosed
    /\ conn' = "closed"
    /\ pc' = "ended"
    /\ UNCHANGED <<ctx, sessions, pubClosed>>
    /\ UNCHANGED <<bridgeVars, accessorVars, parserVars, mockVars, configVars>>

\* run after runSession: return nil when the context is cancelled, go into
\* the wait on an error, call runSession again otherwise
RunCheck ==
    /\ pc = "ended"
    /\ IF ctx = "cancelled" THEN pc' = "returned" /\ UNCHANGED <<conn, sessions>>
       ELSE IF err # "nil" THEN pc' = "wait" /\ UNCHANGED <<conn, sessions>>
       ELSE sessions < MaxSessions /\ sessions' = sessions + 1 /\ conn' = "none" /\ pc' = "dial"
    /\ UNCHANGED <<ctx, err, pubClosed>>
    /\ UNCHANGED <<bridgeVars, accessorVars, parserVars, mockVars, configVars>>

\* (mutation: the timer can win the select after the context was cancelled)
WaitElapsed_Cancelled ==
    /\ pc = "wait"
    /\ sessions < MaxSessions
    /\ sessions' = sessions + 1
    /\ conn' = "none"
    /\ pc' = "dial"
    /\ UNCHANGED <<ctx, err, pubClosed>>
    /\ UNCHANGED <<bridgeVars, accessorVars, parserVars, mockVars, configVars>>
\* the five seconds pass before the context is cancelled; run calls
\* runSession again
WaitElapsed ==
    /\ pc = "wait"
    /\ ctx = "live"
    /\ sessions < MaxSessions
    /\ sessions' = sessions + 1
    /\ conn' = "none"
    /\ pc' = "dial"
    /\ UNCHANGED <<ctx, err, pubClosed>>
    /\ UNCHANGED <<bridgeVars, accessorVars, parserVars, mockVars, configVars>>

\* the context is cancelled before the five seconds have passed; run returns
WaitCancelled ==
    /\ pc = "wait"
    /\ ctx = "cancelled"
    /\ pc' = "returned"
    /\ UNCHANGED <<ctx, conn, err, sessions, pubClosed>>
    /\ UNCHANGED <<bridgeVars, accessorVars, parserVars, mockVars, configVars>>

\* main after run: the deferred pub.Close and cancel
Shutdown ==
    /\ pc = "returned"
    /\ pubClosed' = TRUE
    /\ ctx' = "cancelled"
    /\ pc' = "exit"
    /\ UNCHANGED <<conn, err, sessions>>
    /\ UNCHANGED <<bridgeVars, accessorVars, parserVars, mockVars, configVars>>

NextD ==
    \/ Cancel \/ ConnClose \/ ServerClose
    \/ DialOK \/ DialFails \/ BannerOK \/ BannerFails \/ Login \/ LoginFails
    \/ SessionRead \/ Publish \/ PublishReturn \/ PublishFails \/ SessionEnd
    \/ RunCheck \/ WaitElapsed \/ WaitCancelled \/ Shutdown

SpecD == InitD /\ [][NextD]_vars

\* The main goroutine takes its next step, calls that block on the
\* connection return once it is no longer open, the timers fire, the
\* session's goroutine is scheduled, and a Publish call in flight returns.
\* The reader of a connection that is no longer open holds finitely many
\* records, so Next reports the end after finitely many of them.
FairSpecD ==
    /\ SpecD
    /\ WF_vars(ConnClose)
    /\ WF_vars(DialOK \/ DialFails)
    /\ WF_vars(BannerFails)
    /\ WF_vars(Login \/ LoginFails)
    /\ WF_vars(Publish)
    /\ WF_vars(PublishReturn \/ PublishFails)
    /\ SF_vars(SessionEnd)
    /\ WF_vars(RunCheck)
    /\ WF_vars(WaitElapsed)
    /\ WF_vars(WaitCancelled)
    /\ WF_vars(Shutdown)

\* ---------------------------------------------------------------- MockPublisher
\* the errors a test sets, and nil
MockErrors == {"nil", "broker down"}

\* the calls goroutines make on one MockPublisher; a Publish call carries the
\* number of the call as its payload, so that no two payloads are equal
MockCallsOf(n) ==
    {[op |-> "Publish", topic |-> "t", payload |-> n]}
        \cup {[op |-> o] : o \in {"Close", "Messages", "Reset"}}
        \cup {[op |-> "SetError", err |-> e] : e \in MockErrors}

\* goroutine g enters a method: it is at m.mu.Lock()
MockCall(g) ==
    /\ gor[g].at = "idle"
    /\ ncalls < MaxCalls
    /\ ncalls' = ncalls + 1
    /\ \E c \in MockCallsOf(ncalls + 1) :
           gor' = [gor EXCEPT ![g] = [at |-> "lock", call |-> c]]
    /\ UNCHANGED <<mock, mu, mret, took, resetAt>>
    /\ UNCHANGED <<bridgeVars, pc, accessorVars, parserVars, daemonVars, configVars>>

\* m.mu.Lock() returns in one goroutine at a time
MockLock(g) ==
    /\ gor[g].at = "lock"
    /\ mu = 0
    /\ mu' = g
    /\ gor' = [gor EXCEPT ![g].at = "locked"]
    /\ UNCHANGED <<mock, mret, took, resetAt, ncalls>>
    /\ UNCHANGED <<bridgeVars, pc, accessorVars, parserVars, daemonVars, configVars>>

\* the body of a method runs with the mutex held; the deferred Unlock runs as
\* the method returns r
MockReturn(g, r) ==
    /\ gor[g].at = "locked"
    /\ mu = g
    /\ mu' = 0
    /\ gor' = [gor EXCEPT ![g] = NoCall]
    /\ mret' = [g |-> g, call |-> gor[g].call, val |-> r]
    /\ UNCHANGED ncalls
    /\ UNCHANGED <<bridgeVars, pc, accessorVars, parserVars, daemonVars, configVars>>

MockPublish_IgnoresErr(g) ==
    /\ gor[g].at = "locked" /\ gor[g].call.op = "Publish"
    /\ mock' = [mock EXCEPT !.messages =
                    Append(@, [Topic |-> gor[g].call.topic, Payload |-> gor[g].call.payload])]
    /\ took' = Append(took, [g |-> g, payload |-> gor[g].call.payload, val |-> mock.err])
    /\ MockReturn(g, mock.err)
    /\ UNCHANGED resetAt

MockPublish(g) ==
    /\ gor[g].at = "locked" /\ gor[g].call.op = "Publish"
    /\ IF mock.err # "nil"
       THEN /\ took' = Append(took, [g |-> g, payload |-> gor[g].call.payload, val |-> mock.err])
            /\ MockReturn(g, mock.err)
            /\ UNCHANGED mock
       ELSE /\ mock' = [mock EXCEPT !.messages =
                           Append(@, [Topic |-> gor[g].call.topic,
                                      Payload |-> gor[g].call.payload])]
            /\ took' = Append(took, [g |-> g, payload |-> gor[g].call.payload, val |-> "nil"])
            /\ MockReturn(g, "nil")
    /\ UNCHANGED resetAt

MockClose(g) ==
    /\ gor[g].at = "locked" /\ gor[g].call.op = "Close"
    /\ mock' = [mock EXCEPT !.closed = TRUE]
    /\ MockReturn(g, "nil")
    /\ UNCHANGED <<took, resetAt>>

\* Messages returns a copy of m.messages
MockMessages(g) ==
    /\ gor[g].at = "locked" /\ gor[g].call.op = "Messages"
    /\ MockReturn(g, mock.messages)
    /\ UNCHANGED <<mock, took, resetAt>>

MockReset_ClearsAll(g) ==
    /\ gor[g].at = "locked" /\ gor[g].call.op = "Reset"
    /\ mock' = NewMockPublisher
    /\ resetAt' = Len(took)
    /\ MockReturn(g, << >>)
    /\ UNCHANGED took

MockReset(g) ==
    /\ gor[g].at = "locked" /\ gor[g].call.op = "Reset"
    /\ mock' = [mock EXCEPT !.messages = << >>]
    /\ resetAt' = Len(took)
    /\ MockReturn(g, << >>)
    /\ UNCHANGED took

MockSetError(g) ==
    /\ gor[g].at = "locked" /\ gor[g].call.op = "SetError"
    /\ mock' = [mock EXCEPT !.err = gor[g].call.err]
    /\ MockReturn(g, << >>)
    /\ UNCHANGED <<took, resetAt>>

NextM ==
    \E g \in Goroutines :
        \/ MockCall(g) \/ MockLock(g)
        \/ MockPublish(g) \/ MockClose(g) \/ MockMessages(g)
        \/ MockReset(g) \/ MockSetError(g)

SpecM == Init /\ [][NextM]_vars

\* ---------------------------------------------------------------- config.Load
\* the Config Load starts from, before the file is read into it
DefaultConfig ==
    [AMI |-> [Host |-> "127.0.0.1", Port |-> 5038, Username |-> "", Secret |-> ""],
     MQTT |-> [Broker |-> "tcp://localhost:1883", ClientID |-> "asterisk-mqtt",
               TopicPrefix |-> TopicPrefix]]

\* the keys of the file, and the files Load is called on: one that cannot be
\* read, one that is not YAML, and YAML documents in which each key is left
\* out (<< >>) or given a value; a port is an integer or some other text
ConfigKeys ==
    {"ami.host", "ami.port", "ami.username", "ami.secret",
     "mqtt.broker", "mqtt.client_id", "mqtt.topic_prefix"}
ConfigValues(k) ==
    IF k = "ami.port"
    THEN {[int |-> TRUE, n |-> n] : n \in {-1, 0, 1, 65535, 65536}}
            \cup {[int |-> FALSE, n |-> 0]}
    ELSE {"", CASE k = "ami.host" -> "192.168.1.200"
                [] k = "ami.username" -> "admin"
                [] k = "ami.secret" -> "s3cret"
                [] k = "mqtt.broker" -> "tcp://mqtt.local:1883"
                [] k = "mqtt.client_id" -> "test-client"
                [] OTHER -> "pbx"}
Keyed(k) == {<< >>} \cup {<<v>> : v \in ConfigValues(k)}
ConfigFiles ==
    {[kind |-> "unreadable"], [kind |-> "invalid"]}
        \cup {[kind |-> "yaml",
               doc |-> [k \in ConfigKeys |->
                          CASE k = "ami.host" -> h
                            [] k = "ami.port" -> p
                            [] k = "ami.username" -> u
                            [] k = "ami.secret" -> x
                            [] k = "mqtt.broker" -> b
                            [] k = "mqtt.client_id" -> c
                            [] OTHER -> t]] :
                h \in Keyed("ami.host"), p \in Keyed("ami.port"),
                u \in Keyed("ami.username"), x \in Keyed("ami.secret"),
                b \in Keyed("mqtt.broker"), c \in Keyed("mqtt.client_id"),
                t \in Keyed("mqtt.topic_prefix")}

\* yaml.Unmarshal(data, cfg): a key of the document overwrites its field, a
\* field without a key keeps what it had; text that is no integer cannot go
\* into Port
Field(doc, k, old) == IF doc[k] = << >> THEN old ELSE doc[k][1]
Unmarshal(file, cfg) ==
    IF file.kind = "invalid" THEN [cfg |-> cfg, err |-> <<"yaml">>]
    ELSE IF file.doc["ami.port"] # << >> /\ ~file.doc["ami.port"][1].int
    THEN [cfg |-> cfg, err |-> <<"yaml: cannot unmarshal !!str into int">>]
    ELSE [cfg |-> [AMI |-> [Host |-> Field(file.doc, "ami.host", cfg.AMI.Host),
                            Port |-> IF file.doc["ami.port"] = << >> THEN cfg.AMI.Port
                                     ELSE file.doc["ami.port"][1].n,
                            Username |-> Field(file.doc, "ami.username", cfg.AMI.Username),
                            Secret |-> Field(file.doc, "ami.secret", cfg.AMI.Secret)],
                   MQTT |-> [Broker |-> Field(file.doc, "mqtt.broker", cfg.MQTT.Broker),
                             ClientID |-> Field(file.doc, "mqtt.client_id", cfg.MQTT.ClientID),
                             TopicPrefix |->
                                 Field(file.doc, "mqtt.topic_prefix", cfg.MQTT.TopicPrefix)]],
          err |-> << >>]

\* (mutation: the secret is checked before the username)
validate_SecretFirst(c) ==
    IF c.AMI.Host = "" THEN <<"ami.host is required">>
    ELSE IF c.AMI.Port < 1 \/ c.AMI.Port > 65535
    THEN <<"ami.port must be between 1 and 65535, got", c.AMI.Port>>
    ELSE IF c.AMI.Secret = "" THEN <<"ami.secret is required">>
    ELSE IF c.AMI.Username = "" THEN <<"ami.username is required">>
    ELSE IF c.MQTT.Broker = "" THEN <<"mqtt.broker is required">>
    ELSE IF c.MQTT.ClientID = "" THEN <<"mqtt.client_id is required">>
    ELSE IF c.MQTT.TopicPrefix = "" THEN <<"mqtt.topic_prefix is required">>
    ELSE << >>

\* the error validate returns, << >> for nil
validate(c) ==
    IF c.AMI.Host = "" THEN <<"ami.host is required">>
    ELSE IF c.AMI.Port < 1 \/ c.AMI.Port > 65535
    THEN <<"ami.port must be between 1 and 65535, got", c.AMI.Port>>
    ELSE IF c.AMI.Username = "" THEN <<"ami.username is required">>
    ELSE IF c.AMI.Secret = "" THEN <<"ami.secret is required">>
    ELSE IF c.MQTT.Broker = "" THEN <<"mqtt.broker is required">>
    ELSE IF c.MQTT.ClientID = "" THEN <<"mqtt.client_id is required">>
    ELSE IF c.MQTT.TopicPrefix = "" THEN <<"mqtt.topic_prefix is required">>
    ELSE << >>

\* what Load returns: the *Config (<< >> for nil) and the error
Load(file) ==
    IF file.kind = "unreadable" THEN [cfg |-> << >>, err |-> <<"reading config">>]
    ELSE LET u == Unmarshal(file, DefaultConfig) IN
         IF u.err # << >> THEN [cfg |-> << >>, err |-> <<"parsing config">> \o u.err]
         ELSE IF validate(u.cfg) # << >> THEN [cfg |-> << >>, err |-> validate(u.cfg)]
         ELSE [cfg |-> <<u.cfg>>, err |-> << >>]

InitC ==
    /\ IdleCorrelator
    /\ IdleMock
    /\ IdleBridge
    /\ IdleAccessor
    /\ IdleParser
    /\ IdleDaemon
    /\ cfgIn \in ConfigFiles
    /\ cfgOut = << >>

LoadCall ==
    /\ cfgOut = << >>
    /\ cfgOut' = <<Load(cfgIn)>>
    /\ UNCHANGED cfgIn
    /\ UNCHANGED <<bridgeVars, pc, accessorVars, parserVars, daemonVars, mockVars>>

NextC == LoadCall

SpecC == InitC /\ [][NextC]_vars

\* ================================================================ claims
\* the call id of a record, and whether Process dispatches it as `kind`
Lid(e) == Get(e, "Linkedid")
Dispatched(e, kind) == Type(e) = kind /\ ~IsResponse(e) /\ Lid(e) # ""
PrimaryHangup(e) == Dispatched(e, "Hangup") /\ Get(e, "Uniqueid") = Lid(e)
SecondaryHangup(e) == Dispatched(e, "Hangup") /\ Get(e, "Uniqueid") # Lid(e)
StateNotice(e, desc) == Dispatched(e, "Newstate") /\ Get(e, "ChannelStateDesc") = desc

\* the states of a sequence of changes, in order
StatesOf(changes) == [i \in 1..Len(changes) |-> changes[i].State]
HasState(changes, st) == \E i \in 1..Len(changes) : changes[i].State = st

\* C1 as stated: over the whole session, for each call id at most one Ringing,
\* one Answered and one HungUp change is ever emitted, i.e. no step returns a
\* change whose (call id, state) pair was already returned by an earlier step.
C1_OncePerCallId ==
    [][\A i \in 1..Len(out') : <<out'[i].CallID, out'[i].State>> \notin seen]_vars

\* C1 as amended: for each CallRecord, from its creation to its removal, at
\* most one Ringing, one Answered and one HungUp change is emitted: a change
\* is only returned for a call id that has a CallRecord, its state was not yet
\* returned for that CallRecord, and a HungUp removes the CallRecord.
C1_OncePerCallRecord ==
    [][\A i \in 1..Len(out') :
          LET ch == out'[i] IN
          /\ ch.CallID \in DOMAIN calls
          /\ ~HasState(trail[ch.CallID], ch.State)
          /\ ch.State = StateHungUp => ch.CallID \notin DOMAIN calls']_vars

\* a call id reused after its HungUp: the second CallRecord of "c1" has
\* emitted its own Ringing and Answered
C1_Witness ==
    /\ <<"c1", StateHungUp>> \in seen
    /\ "c1" \in DOMAIN calls
    /\ HasState(trail["c1"], StateRinging)
    /\ HasState(trail["c1"], StateAnswered)

\* C2: for an active CallRecord, a "Ringing" notification returns a Ringing
\* change only if rung was unset and an "Up" notification returns an Answered
\* change only if answered was unset; once the flag is set, such a
\* notification, from any leg, returns nothing and leaves the CallRecord, its
\* ring and answer timestamps included, as it was.
C2_DuplicatesIgnored ==
    [][(Dispatched(evt', "Newstate") /\ Lid(evt') \in DOMAIN calls) =>
          LET id == Lid(evt')
              desc == Get(evt', "ChannelStateDesc")
          IN  /\ desc = "Ringing" =>
                    IF calls[id].rung
                    THEN out' = << >> /\ calls' = calls
                    ELSE /\ Len(out') = 1 /\ out'[1].State = StateRinging
                         /\ calls'[id].rung /\ calls'[id].ringTime = now'
                         /\ calls'[id].answerTime = calls[id].answerTime
              /\ desc = "Up" =>
                    IF calls[id].answered
                    THEN out' = << >> /\ calls' = calls
                    ELSE /\ Len(out') = 1 /\ out'[1].State = StateAnswered
                         /\ calls'[id].answered /\ calls'[id].answerTime = now'
                         /\ calls'[id].ringTime = calls[id].ringTime
              /\ desc \notin {"Ringing", "Up"} => out' = << >>]_vars

\* a second "Up" for a call answered earlier, arriving on another leg at a
\* later clock reading, returned nothing and kept the answer timestamp
C2_Witness ==
    /\ StateNotice(evt, "Up") /\ Lid(evt) = "c1" /\ Get(evt, "Uniqueid") = "c1"
    /\ "c1" \in DOMAIN calls
    /\ calls["c1"].answered /\ calls["c1"].rung
    /\ calls["c1"].answerTime < now
    /\ out = << >>

\* C3: every HungUp change has total_duration >= talk_duration.
C3_TotalNotBelowTalk ==
    \A i \in 1..Len(out) :
        out[i].State = StateHungUp => out[i].TotalDuration >= out[i].TalkDuration

\* the change of a trail that has state st (there is at most one, by C1)
ChangeIn(changes, st) == changes[CHOOSE i \in 1..Len(changes) : changes[i].State = st]

\* C4: the HungUp change of a CallRecord for which no Answered change was
\* returned has talk_duration = 0, whatever its cause, cancelled flag and the
\* time elapsed; when an Answered change was returned, talk_duration is the
\* clock reading at the termination minus the one at the Answered change.
C4_TalkDuration ==
    [][(PrimaryHangup(evt') /\ Lid(evt') \in DOMAIN calls) =>
          LET id == Lid(evt')
          IN  /\ Len(out') = 1 /\ out'[1].State = StateHungUp
              /\ out'[1].TalkDuration =
                    IF HasState(trail[id], StateAnswered)
                    THEN now' - ChangeIn(trail[id], StateAnswered).Timestamp
                    ELSE 0]_vars

\* a call that rang, was cancelled and never answered, ended two seconds
\* after it rang: talk_duration 0 next to total_duration 2 and code 127
C4_Witness ==
    /\ PrimaryHangup(evt)
    /\ Len(out) = 1 /\ out[1].State = StateHungUp
    /\ out[1].Cause = "cancelled" /\ out[1].CauseCode = 127
    /\ out[1].TalkDuration = 0 /\ out[1].TotalDuration = 2

\* the cause table of the interface: code -> name
CauseTableNames ==
    [code \in {0, 16, 17, 18, 19, 21, 31, 34, 127} |->
        CASE code = 0 -> "unknown" [] code = 16 -> "normal_clearing"
          [] code = 17 -> "user_busy" [] code = 18 -> "no_answer"
          [] code = 19 -> "no_answer" [] code = 21 -> "call_rejected"
          [] code = 31 -> "normal_unspecified" [] code = 34 -> "congestion"
          [] code = 127 -> "interworking"]

\* C5: on primary-leg termination the cause name is "cancelled", with the
\* fixed cancellation description, iff the CallRecord's cancelled flag is set
\* and its answered flag is unset; otherwise it is the table's name for the
\* reported code, "unknown" with "Unknown or no cause provided" when the code
\* is not in the table.  A cancellation never overrides an answered call.
C5_CauseResolution ==
    [][(PrimaryHangup(evt') /\ Lid(evt') \in DOMAIN calls) =>
          LET cs == calls[Lid(evt')]
              ch == out'[1]
          IN  /\ Len(out') = 1
              /\ ch.Cause = "cancelled" <=> (cs.cancelled /\ ~cs.answered)
              /\ ch.Cause = "cancelled" =>
                    ch.CauseDescription =
                        "The call was cancelled by the caller before being answered"
              /\ (ch.Cause # "cancelled" /\ ch.CauseCode \in DOMAIN CauseTableNames) =>
                    ch.Cause = CauseTableNames[ch.CauseCode]
              /\ (ch.Cause # "cancelled" /\ ch.CauseCode \notin DOMAIN CauseTableNames) =>
                    /\ ch.Cause = "unknown"
                    /\ ch.CauseDescription = "Unknown or no cause provided"
              /\ cs.answered => ch.Cause # "cancelled"]_vars

\* an answered call (talk_duration 1) ended with a code that is not in the
\* table: reported as "unknown" with the generic description
C5_Witness ==
    /\ PrimaryHangup(evt) /\ Get(evt, "Cause") = "5"
    /\ Len(out) = 1 /\ out[1].State = StateHungUp
    /\ out[1].Cause = "unknown" /\ out[1].CauseCode = 5
    /\ out[1].TalkDuration = 1

\* the integer a Cause header stands for: 0 when absent or not an integer
CauseNumber(text) ==
    CASE text = "16" -> 16 [] text = "127" -> 127 [] text = "5" -> 5
      [] text = "abc" -> 0 [] text = "" -> 0

C8_PrimaryHangupFinalizes ==
    [][(PrimaryHangup(evt') /\ Lid(evt') \in DOMAIN calls) =>
          LET id == Lid(evt')
          IN  /\ Len(out') = 1
              /\ out'[1].State = StateHungUp /\ out'[1].CallID = id
              /\ DOMAIN calls' = DOMAIN calls \ {id}
              /\ \A other \in DOMAIN calls' : calls'[other] = calls[other]
              /\ Cardinality(DOMAIN calls') = Cardinality(DOMAIN calls) - 1]_vars

\* "c1" ended without ever ringing or being answered while "c2" stays active
C8_Witness ==
    /\ PrimaryHangup(evt) /\ Lid(evt) = "c1"
    /\ Len(out) = 1 /\ out[1].State = StateHungUp /\ out[1].CallID = "c1"
    /\ out[1].TotalDuration = 0 /\ out[1].TalkDuration = 0 /\ out[1].Timestamp = 3
    /\ DOMAIN calls = {"c2"} /\ ActiveCalls = 1

\* created -> rung -> answered -> finalized
Rank(st) == CASE st = StateRinging -> 1 [] st = StateAnswered -> 2 [] st = StateHungUp -> 3

\* C9: within the lifetime of a CallRecord the changes follow the order
\* Ringing, Answered, HungUp: no change is returned after a change of a later
\* state for the same CallRecord (no Ringing after Answered, HungUp last).
C9_LifecycleOrder ==
    [][\A i \in 1..Len(out') :
          out'[i].CallID \in DOMAIN calls =>
             \A j \in 1..Len(trail[out'[i].CallID]) :
                 Rank(trail[out'[i].CallID][j].State) <= Rank(out'[i].State)]_vars

\* C10: a call that is created, gets its first Ringing notification at clock
\* r, then its first Up at a and its primary Hangup at h returns exactly
\* Ringing (timestamp r), Answered (timestamp a, ring_duration a - r) and
\* HungUp (timestamp h, talk_duration h - a, total_duration h - r), in that
\* order; repeated notifications, Hangups of other legs and the records of
\* other calls add nothing to the changes of the call.
C10_RingAnswerHangup ==
    [][\A id \in DOMAIN calls : \E before \in {trail[id]} : \E sts \in {StatesOf(before)} :
          \E mine \in {Lid(evt') = id /\ ~IsResponse(evt')} :
              \* the first Ringing notification
              /\ (sts = << >> /\ mine /\ StateNotice(evt', "Ringing")) =>
                    /\ Len(out') = 1 /\ trail'[id] = out'
                    /\ out'[1].State = StateRinging /\ out'[1].Timestamp = now'
              \* the first Up, after the Ringing
              /\ (sts = <<StateRinging>> /\ mine /\ StateNotice(evt', "Up")) =>
                    /\ Len(out') = 1 /\ trail'[id] = before \o out'
                    /\ out'[1].State = StateAnswered /\ out'[1].Timestamp = now'
                    /\ out'[1].RingDuration = now' - before[1].Timestamp
              \* the primary Hangup, after both
              /\ (sts = <<StateRinging, StateAnswered>> /\ mine /\ PrimaryHangup(evt')) =>
                    /\ Len(out') = 1 /\ id \notin DOMAIN calls'
                    /\ out'[1].State = StateHungUp /\ out'[1].Timestamp = now'
                    /\ out'[1].TalkDuration = now' - before[2].Timestamp
                    /\ out'[1].TotalDuration = now' - before[1].Timestamp
                    /\ before[1].Timestamp <= before[2].Timestamp
                    /\ before[2].Timestamp <= now'
              \* anything else once the call rang and was answered
              /\ (sts = <<StateRinging, StateAnswered>> /\ ~(mine /\ PrimaryHangup(evt'))) =>
                    /\ id \in DOMAIN calls' /\ trail'[id] = before
                    /\ \A i \in 1..Len(out') : out'[i].CallID # id
              \* anything else once the call rang
              /\ (sts = <<StateRinging>>
                       /\ ~(mine /\ (PrimaryHangup(evt') \/ StateNotice(evt', "Up")))) =>
                    /\ id \in DOMAIN calls' /\ trail'[id] = before
                    /\ \A i \in 1..Len(out') : out'[i].CallID # id]_vars

\* Ringing at 1, Up at 2, primary Hangup at 3: ring 1, talk 1, total 2
C10_Witness ==
    /\ PrimaryHangup(evt) /\ Lid(evt) = "c1" /\ now = 3
    /\ Len(out) = 1 /\ out[1].State = StateHungUp /\ out[1].Timestamp = 3
    /\ out[1].TalkDuration = 1 /\ out[1].TotalDuration = 2
    /\ out[1].Cause = "normal_clearing"

\* C11: a call that rang, got a DialEnd with DialStatus CANCEL and was never
\* answered ends, at its primary Hangup, with exactly two changes, Ringing
\* then HungUp; the HungUp has cause "cancelled", talk_duration 0 and
\* total_duration = clock at the Hangup minus clock at the Ringing, whatever
\* cause code the Hangup carries.  The DialEnd itself returns nothing, sets
\* the cancelled flag, and the flag stays set while the CallRecord lives.
C11_CancelledCall ==
    [][\A id \in DOMAIN calls :
          /\ (calls[id].cancelled /\ id \in DOMAIN calls') => calls'[id].cancelled
          /\ (Dispatched(evt', "DialEnd") /\ Lid(evt') = id
                  /\ Get(evt', "DialStatus") = "CANCEL") =>
                /\ out' = << >> /\ trail'[id] = trail[id]
                /\ calls'[id].cancelled
          /\ (PrimaryHangup(evt') /\ Lid(evt') = id /\ calls[id].cancelled
                  /\ StatesOf(trail[id]) = <<StateRinging>>) =>
                /\ Len(out') = 1 /\ out'[1].State = StateHungUp
                /\ out'[1].Cause = "cancelled"
                /\ out'[1].TalkDuration = 0
                /\ out'[1].TotalDuration = now' - trail[id][1].Timestamp
                /\ out'[1].CauseCode = CauseNumber(Get(evt', "Cause"))
                /\ StatesOf(trail[id] \o out') = <<StateRinging, StateHungUp>>]_vars

\* a cancelled, unanswered call that rang one second before its Hangup, whose
\* Hangup carries code 5
C11_Witness ==
    /\ PrimaryHangup(evt) /\ Get(evt, "Cause") = "5"
    /\ Len(out) = 1 /\ out[1].State = StateHungUp
    /\ out[1].Cause = "cancelled" /\ out[1].CauseCode = 5
    /\ out[1].TalkDuration = 0 /\ out[1].TotalDuration = 1

\* C12: an Answered change is returned at the clock reading of its "Up"
\* notification and carries ring_duration = that reading minus the reading of
\* the Ringing change returned before it for the same CallRecord, and
\* ring_duration = 0 when no Ringing change was returned before it.
C12_RingDuration ==
    /\ \A id \in DOMAIN trail : \A i \in 1..Len(trail[id]) :
          trail[id][i].State = StateAnswered =>
             trail[id][i].RingDuration =
                IF HasState(SubSeq(trail[id], 1, i - 1), StateRinging)
                THEN trail[id][i].Timestamp
                        - ChangeIn(SubSeq(trail[id], 1, i - 1), StateRinging).Timestamp
                ELSE 0
    /\ (StateNotice(evt, "Up") /\ out # << >>) =>
          out[1].State = StateAnswered /\ out[1].Timestamp = now

\* a call answered at clock 3 that was never seen ringing: ring_duration 0
C12_Witness ==
    /\ StateNotice(evt, "Up") /\ Len(out) = 1
    /\ out[1].State = StateAnswered /\ out[1].Timestamp = 3
    /\ out[1].RingDuration = 0
    /\ trail["c1"] = out

\* the five notification kinds Process dispatches
DispatchedKinds == {"Newchannel", "DialBegin", "Newstate", "DialEnd", "Hangup"}

\* C15: an acknowledgement (non-empty Response, whatever else it carries), a
\* record without Linkedid and a record of any other kind than the five
\* dispatched ones return no change and leave the active set and every
\* CallRecord as they were.
C15_IgnoredRecords ==
    [][(Type(evt') \notin DispatchedKinds \/ IsResponse(evt') \/ Lid(evt') = "") =>
          (out' = << >> /\ calls' = calls /\ trail' = trail)]_vars

\* an acknowledgement that carries "Event: Hangup" and the ids of the
\* answered call "c1": nothing returned, "c1" still active
C15_Witness ==
    /\ IsResponse(evt) /\ Type(evt) = "Hangup" /\ Lid(evt) = "c1"
    /\ "c1" \in DOMAIN calls /\ calls["c1"].answered
    /\ out = << >>

\* C19: every change carries the Linkedid of the record that triggered it,
\* never the Uniqueid of a leg, so all changes of one CallRecord carry the
\* same call id.
C19_StableCallId ==
    /\ \A i \in 1..Len(out) : out[i].CallID = Lid(evt)
    /\ \A id \in DOMAIN trail : \A i \in 1..Len(trail[id]) : trail[id][i].CallID = id

\* the second change of "c1", triggered by an "Up" of leg "leg.2"
C19_Witness ==
    /\ StateNotice(evt, "Up") /\ Get(evt, "Uniqueid") = "leg.2" /\ Lid(evt) = "c1"
    /\ Len(out) = 1 /\ out[1].CallID = "c1"
    /\ Len(trail["c1"]) = 2
    /\ trail["c1"][1].CallID = "c1" /\ trail["c1"][2].CallID = "c1"

\* C13: a primary-leg termination removes the CallRecord; a Creation record
\* for a call id without CallRecord, also one that had a CallRecord before,
\* opens a CallRecord whose endpoints are those of that Creation record, with
\* rung, answered and cancelled unset and both timestamps zero, and with no
\* change returned yet; every change returned for a CallRecord carries the
\* caller and the destination number of that CallRecord, a "cancelled" cause
\* only if that CallRecord was cancelled, and a non-zero duration only if
\* the change it is counted from was returned for that CallRecord.
C13_ReuseStartsFresh ==
    [][/\ \A i \in 1..Len(out') :
             LET ch == out'[i] IN
             /\ ch.State = StateHungUp => ch.CallID \notin DOMAIN calls'
             /\ ch.CallID \in DOMAIN calls
             /\ ch.Cause = "cancelled" => calls[ch.CallID].cancelled
             /\ ch.RingDuration > 0 => HasState(trail[ch.CallID], StateRinging)
             /\ ch.TotalDuration > 0 => HasState(trail[ch.CallID], StateRinging)
             /\ ch.TalkDuration > 0 => HasState(trail[ch.CallID], StateAnswered)
       /\ (Dispatched(evt', "Newchannel") /\ Lid(evt') \notin DOMAIN calls) =>
             /\ out' = << >>
             /\ DOMAIN calls' = DOMAIN calls \cup {Lid(evt')}
             /\ calls'[Lid(evt')] =
                   [linkedID |-> Lid(evt'),
                    from |-> [Extension |-> Get(evt', "CallerIDNum"),
                              Name |-> Get(evt', "CallerIDName")],
                    to |-> [Extension |-> Get(evt', "Exten"), Name |-> ""],
                    ringTime |-> ZeroTime, answerTime |-> ZeroTime,
                    answered |-> FALSE, rung |-> FALSE, cancelled |-> FALSE]
             /\ trail'[Lid(evt')] = << >>
       /\ \A id \in DOMAIN calls' : \A i \in 1..Len(trail'[id]) :
             /\ trail'[id][i].From = calls'[id].from
             /\ trail'[id][i].To.Extension = calls'[id].to.Extension]_vars

\* "c1" rang, was answered and hung up before; it has just been created
\* again, by the other caller: a CallRecord with that caller and nothing set
C13_Witness ==
    /\ {<<"c1", StateRinging>>, <<"c1", StateAnswered>>, <<"c1", StateHungUp>>} \subseteq seen
    /\ Dispatched(evt, "Newchannel") /\ Get(evt, "CallerIDNum") = "21"
    /\ Get(evt, "Uniqueid") = "c1"
    /\ "c1" \in DOMAIN calls
    /\ calls["c1"] = callState("c1", Endpoint("21", ""), Endpoint("1986", ""))
    /\ trail["c1"] = << >>

AllRecords ==
    NewchannelEvents \cup LegNewchannelEvents \cup DialBeginEvents
        \cup RenameDialBeginEvents \cup NewstateEvents \cup DialEndEvents
        \cup OddDialEndEvents \cup HangupEvents \cup OtherEvents

\* C16: a DialBegin, Newstate, DialEnd or Hangup record whose call id has no
\* CallRecord, because none was created or because it was finalized, returns
\* no change and leaves the active set as it was; and in every state Process
\* yields a result (at most one change) for every record of the stream, at
\* every clock reading.
C16_UnknownCallIgnored ==
    /\ [][(Dispatched(evt', "DialBegin") \/ Dispatched(evt', "Newstate")
              \/ Dispatched(evt', "DialEnd") \/ Dispatched(evt', "Hangup")) =>
             (Lid(evt') \notin DOMAIN calls =>
                 (out' = << >> /\ calls' = calls /\ trail' = trail))]_vars
    /\ [](\A e \in AllRecords : \A t \in now..MaxTime :
             \E r \in {Process(calls, e, t)} :
                 Len(r.out) <= 1 /\ DOMAIN r.calls \subseteq CallIds)

\* a second primary Hangup for "c1", after the one that finalized it
C16_Witness ==
    /\ PrimaryHangup(evt) /\ Lid(evt) = "c1"
    /\ <<"c1", StateHungUp>> \in seen
    /\ calls = NoCalls
    /\ out = << >>

\* C17: a DialBegin record for an active CallRecord returns nothing and
\* changes nothing but the destination name, which it sets to its
\* DestCallerIDName when the name is still empty and DestCallerIDName is not;
\* a name that is set is never replaced.
C17_FirstNameWins ==
    [][(Dispatched(evt', "DialBegin") /\ Lid(evt') \in DOMAIN calls) =>
          /\ out' = << >> /\ trail' = trail
          /\ calls' = [calls EXCEPT ![Lid(evt')].to.Name =
                          IF @ = "" /\ Get(evt', "DestCallerIDName") # ""
                          THEN Get(evt', "DestCallerIDName") ELSE @]]_vars

\* a DialBegin naming "Office" for a call whose destination is already
\* named "Kitchen"
C17_Witness ==
    /\ Dispatched(evt, "DialBegin") /\ Get(evt, "DestCallerIDName") = "Office"
    /\ "c1" \in DOMAIN calls /\ calls["c1"].to.Name = "Kitchen"
    /\ out = << >>

\* C18: a DialEnd record returns no change; with DialStatus "CANCEL" it sets
\* the cancelled flag of the active CallRecord of its call id and nothing
\* else; with any other DialStatus, or without CallRecord, it changes
\* nothing.
C18_DialEndSetsCancelled ==
    [][Dispatched(evt', "DialEnd") =>
          /\ out' = << >> /\ trail' = trail
          /\ calls' = IF Lid(evt') \in DOMAIN calls /\ Get(evt', "DialStatus") = "CANCEL"
                      THEN [calls EXCEPT ![Lid(evt')].cancelled = TRUE]
                      ELSE calls]_vars

\* a DialEnd with DialStatus ANSWER for a cancelled, ringing call: the flag
\* stays set
C18_Witness ==
    /\ Dispatched(evt, "DialEnd") /\ Get(evt, "DialStatus") = "ANSWER"
    /\ "c1" \in DOMAIN calls
    /\ calls["c1"].cancelled /\ calls["c1"].rung /\ ~calls["c1"].answered
    /\ out = << >>

\* the messages publishChange makes of a sequence of changes
MessagesOf(changes) == [i \in 1..Len(changes) |-> publishChange(TopicPrefix, changes[i])]

\* C20: in a bridge session a record is read and processed only when every
\* change Process returned so far went through Publish and Publish returned;
\* at every moment the messages handed to Publish are those of the changes
\* Process returned, in the order it returned them, less the ones of the
\* current record still waiting in the loop.
C20_PublishBeforeNext ==
    /\ [](/\ pc \in {"next", "closed"} =>
                (queue = << >> /\ published = MessagesOf(returned))
          /\ pc = "publish" =>
                (queue # << >> /\ published \o MessagesOf(queue) = MessagesOf(returned))
          /\ pc = "inPublish" =>
                (queue # << >> /\ published \o MessagesOf(Tail(queue)) = MessagesOf(returned)))
    /\ [][<<calls, now, evt, out, returned>>' # <<calls, now, evt, out, returned>> =>
             (pc = "next" /\ queue = << >> /\ published = MessagesOf(returned))]_vars

\* the three changes of an answered call were published, in order, and the
\* loop is back at parser.Next
C20_Witness ==
    /\ pc = "next" /\ queue = << >>
    /\ Len(published) = 3
    /\ published[1].Topic = <<"asterisk", "call", "c1", "ringing">>
    /\ published[2].Topic = <<"asterisk", "call", "c1", "answered">>
    /\ published[3].Topic = <<"asterisk", "call", "c1", "hungup">>
    /\ published[3].Payload.talk_duration_seconds = 1
    /\ published = MessagesOf(returned)

\* the payload keys that belong to one state only
AnsweredKeys == {"ring_duration_seconds"}
HungUpKeys ==
    {"cause", "cause_description", "cause_code", "talk_duration_seconds",
     "total_duration_seconds"}

\* C27: the payload published for a change has ring_duration_seconds iff the
\* change is Answered and has cause, cause_description, cause_code,
\* talk_duration_seconds and total_duration_seconds iff it is HungUp, with
\* the values of the change, 0 included; the payload of a Ringing change has
\* none of these keys.
C27_StateKeys ==
    \A i \in 1..Len(published) :
        LET payload == published[i].Payload
            change == returned[i]
        IN  /\ \A k \in AnsweredKeys :
                   k \in DOMAIN payload <=> change.State = StateAnswered
            /\ \A k \in HungUpKeys :
                   k \in DOMAIN payload <=> change.State = StateHungUp
            /\ change.State = StateAnswered =>
                   payload.ring_duration_seconds = change.RingDuration
            /\ change.State = StateHungUp =>
                   /\ payload.cause = change.Cause
                   /\ payload.cause_description = change.CauseDescription
                   /\ payload.cause_code = change.CauseCode
                   /\ payload.talk_duration_seconds = change.TalkDuration
                   /\ payload.total_duration_seconds = change.TotalDuration
            /\ change.State = StateRinging =>
                   DOMAIN payload \cap (AnsweredKeys \cup HungUpKeys) = {}

\* a call that rang and was never answered: its hungup payload has
\* talk_duration_seconds 0 next to total_duration_seconds 1 and cause_code 0
C27_Witness ==
    /\ Len(published) = 2
    /\ published[1].Payload.event = "ringing"
    /\ published[2].Payload.event = "hungup"
    /\ published[2].Payload.talk_duration_seconds = 0
    /\ published[2].Payload.total_duration_seconds = 1
    /\ published[2].Payload.cause_code = 0

\* C28: every change is published to the topic prefix/call/<call id>/<state>
\* with the state one of ringing, answered, hungup; the event of the payload
\* is the last segment of the topic and its call_id the call-id segment.
C28_Topic ==
    \A i \in 1..Len(published) :
        LET topic == published[i].Topic
            payload == published[i].Payload
        IN  /\ topic = <<TopicPrefix, "call", returned[i].CallID, returned[i].State>>
            /\ topic[4] \in {"ringing", "answered", "hungup"}
            /\ payload.event = topic[4]
            /\ payload.call_id = topic[3]

\* the Answered change of "c1" is in Publish, on asterisk/call/c1/answered
C28_Witness ==
    /\ pc = "inPublish" /\ Len(published) = 2
    /\ published[2].Topic = <<"asterisk", "call", "c1", "answered">>
    /\ published[2].Payload.event = "answered"
    /\ published[2].Payload.call_id = "c1"

\* the integer a decimal text stands for, 0 when it stands for none
IntegerOf(text) ==
    CASE text = "16" -> 16 [] text = "17" -> 17 [] text = "-1" -> 0 - 1
      [] text = "" -> 0 [] text = "abc" -> 0 [] text = "16x" -> 0

IsBlank(line) == \A i \in 1..Len(line) : line[i] = CR
HasSeparator(line) == \E i \in 1..Len(line) : line[i] = Separator
\* a line without the "\r" pieces at its end
Content(line) ==
    LET keep == { k \in 1..Len(line) : line[k] # CR }
    IN  IF keep = {} THEN << >>
        ELSE SubSeq(line, 1, CHOOSE k \in keep : \A j \in keep : j <= k)
\* the pair a line stands for inside a record
PairOf(line) ==
    LET t == Content(line)
        seps == { k \in 1..Len(t) : t[k] = Separator }
        k == CHOOSE i \in seps : \A j \in seps : i <= j
    IN  IF seps = {} THEN [Key |-> << >>, Value |-> t]
        ELSE [Key |-> SubSeq(t, 1, k - 1), Value |-> SubSeq(t, k + 1, Len(t))]
\* the record of lines a..b of the stream, none of them blank: its pairs start
\* at the first line with a separator
RecordOf(s, a, b) ==
    LET seps == { k \in a..b : HasSeparator(s[k]) }
        f == CHOOSE i \in seps : \A j \in seps : i <= j
    IN  IF seps = {} THEN << >> ELSE [i \in 1..(b - f + 1) |-> PairOf(s[f + i - 1])]
\* the blocks of the stream: maximal runs a..b of lines that are not blank
Blocks(s) ==
    { ab \in (1..Len(s)) \X (1..Len(s)) :
        /\ ab[1] <= ab[2]
        /\ \A k \in ab[1]..ab[2] : ~IsBlank(s[k])
        /\ ab[1] = 1 \/ IsBlank(s[ab[1] - 1])
        /\ ab[2] = Len(s) \/ IsBlank(s[ab[2] + 1]) }
\* the blocks that hold a line with a separator
RecordBlocks(s) == { ab \in Blocks(s) : \E k \in ab[1]..ab[2] : HasSeparator(s[k]) }
RECURSIVE InOrder(_)
InOrder(blocks) ==
    IF blocks = {} THEN << >>
    ELSE LET first == CHOOSE ab \in blocks : \A cd \in blocks : ab[1] <= cd[1]
         IN  <<first>> \o InOrder(blocks \ {first})
RecordsOf(s, blocks) ==
    LET ordered == InOrder(blocks)
    IN  [i \in 1..Len(ordered) |-> RecordOf(s, ordered[i][1], ordered[i][2])]
NoEvent == [evt |-> << >>, ok |-> FALSE]

C25_OnePerBlock ==
    last = NoEvent =>
        LET closed == RecordsOf(stream, { ab \in RecordBlocks(stream) : ab[2] < Len(stream) })
        IN  /\ Len(closed) <= Len(parsed)
            /\ Len(parsed) <= Len(closed) + 1
            /\ SubSeq(parsed, 1, Len(closed)) = closed
            /\ \A i \in 1..Len(parsed) : Len(parsed[i]) > 0

\* ---- the daemon
InLoop(at) == at \in {"next", "publish", "inPublish"}
SessionErrors == {ErrDial, ErrBanner, ErrLogin, ErrClosed}
\* the step in which runSession returns
SessionReturns == pc # "ended" /\ pc' = "ended"

\* C21: when parser.Next reports the end of the stream, runSession returns
\* without another call of Process or Publish: the active CallRecords stay as
\* they are, no change is returned or published in that step or anywhere
\* outside the session's loop, and the value runSession returns depends on the
\* context alone, not on whether calls are active.
C21_StreamEndEmitsNothing ==
    /\ [][pc = "next" /\ pc' = "ended" =>
            /\ calls' = calls
            /\ queue = << >> /\ queue' = << >>
            /\ err' = IF ctx = "cancelled" THEN "nil" ELSE ErrClosed]_vars
    /\ [][~InLoop(pc) \/ ~InLoop(pc') =>
            published' = published /\ returned' = returned]_vars

\* the stream ended while c1 was ringing: one Ringing change was returned and
\* published, c1 is still active and the session returned its usual error
C21_Witness ==
    /\ pc = "ended"
    /\ err = ErrClosed
    /\ "c1" \in DOMAIN calls
    /\ calls["c1"].rung
    /\ StatesOf(returned) = <<StateRinging>>
    /\ Len(published) = 1

\* C22: a session enters its loop with a Correlator that has no CallRecord,
\* the active set changes in the steps of that loop only, and every change a
\* session returns, HungUp included, is for a call the session's Correlator
\* held before the step, so the primary-leg Hangup of a call created in an
\* earlier session returns none.
C22_FreshCorrelator ==
    /\ [][pc = "login" /\ pc' = "next" => calls' = NoCalls]_vars
    /\ [][calls' # calls => (pc = "login" \/ pc = "next") /\ InLoop(pc')]_vars
    /\ [][returned' # returned =>
            /\ returned' = returned \o out'
            /\ \A i \in 1..Len(out') : out'[i].CallID \in DOMAIN calls]_vars

\* c1 rang in the first session; the second session reads its primary-leg
\* Hangup and returns nothing
C22_Witness ==
    /\ sessions = 2
    /\ pc = "next"
    /\ PrimaryHangup(evt)
    /\ Lid(evt) = "c1"
    /\ out = << >>
    /\ calls = NoCalls
    /\ StatesOf(returned) = <<StateRinging>>

\* what holds of a shutdown whatever runSession returns: the context once
\* cancelled, no session is started, run returns after runSession, the
\* connection is no longer open and the publisher is closed when main is
\* through, and main gets there
ShutdownSafety ==
    /\ [][ctx = "cancelled" => sessions' = sessions]_vars
    /\ [][ctx = "cancelled" /\ pc = "ended" /\ pc' # pc => pc' = "returned"]_vars
    /\ [](pc \in {"returned", "exit"} => conn # "open")
    /\ [](pubClosed <=> pc = "exit")
ShutdownLiveness ==
    /\ (ctx = "cancelled") ~> (conn # "open")
    /\ (ctx = "cancelled") ~> (pc = "exit" /\ pubClosed)

\* C29 as stated: once the context is cancelled the connection is closed, the
\* session that is running returns nil, run returns without another session,
\* the publisher is closed and the daemon terminates.
C29_SessionReturnsNil ==
    /\ [][ctx = "cancelled" /\ SessionReturns => err' = "nil"]_vars
    /\ ShutdownSafety
    /\ ShutdownLiveness

\* C29: once the context is cancelled the connection is closed; a session
\* that is in its record loop returns nil, a session that is still dialling,
\* reading the banner or logging in returns the error of that step; run
\* returns without another session, the publisher is closed and the daemon
\* terminates.
C29_GracefulShutdown ==
    /\ [][ctx = "cancelled" /\ SessionReturns =>
            err' = CASE pc = "dial" -> ErrDial
                     [] pc = "banner" -> ErrBanner
                     [] pc = "login" -> ErrLogin
                     [] OTHER -> "nil"]_vars
    /\ ShutdownSafety
    /\ ShutdownLiveness

\* a session in its loop was cancelled after a change: runSession returned
\* nil and main is through with the publisher closed
C29_Witness ==
    /\ pc = "exit"
    /\ pubClosed
    /\ err = "nil"
    /\ sessions = 1
    /\ conn = "closed"
    /\ Len(published) = 1

\* C30: run returns under a cancelled context only; a session that ends under
\* a live context ends with one of the four errors and run goes into its
\* wait; the wait ends with a new session when the time passes first and with
\* run's return, and no new session, when the context is cancelled first; and
\* run does get from the session's end to the wait and from the wait on (to
\* the next session as long as sessions are left to start).
C30_Reconnect ==
    /\ [](pc \in {"returned", "exit"} => ctx = "cancelled")
    /\ [][ctx = "live" /\ SessionReturns => err' \in SessionErrors]_vars
    /\ [][ctx = "live" /\ pc = "ended" /\ pc' # pc => pc' = "wait"]_vars
    /\ [][pc = "wait" /\ pc' # pc =>
            IF ctx = "live" THEN pc' = "dial" /\ sessions' = sessions + 1
            ELSE pc' = "returned" /\ sessions' = sessions]_vars
    /\ (pc = "ended" /\ ctx = "live") ~> (pc = "wait" \/ ctx = "cancelled")
    /\ (pc = "wait") ~> (pc = "dial" \/ pc = "returned" \/ sessions = MaxSessions)

\* the first session ended with the stream closed, run waited and the second
\* session is dialling
C30_Witness ==
    /\ sessions = 2
    /\ pc = "dial"
    /\ ctx = "live"
    /\ err = ErrClosed

\* C34: the clock never going back, every Answered change has
\* ring_duration >= 0 and every HungUp change has talk_duration >= 0 and
\* total_duration >= 0; the total_duration of a HungUp change is 0 exactly
\* when no Ringing change was returned for its CallRecord or the Ringing
\* change carries the clock reading of the HungUp change.
C34_DurationsNotNegative ==
    [][\A i \in 1..Len(out') :
        LET ch == out'[i]
            before == IF ch.CallID \in DOMAIN calls THEN trail[ch.CallID] ELSE << >>
        IN  /\ ch.RingDuration >= 0
            /\ ch.TalkDuration >= 0
            /\ ch.TotalDuration >= 0
            /\ ch.State = StateHungUp =>
                 ((ch.TotalDuration = 0) <=>
                    \/ ~HasState(before, StateRinging)
                    \/ ChangeIn(before, StateRinging).Timestamp = ch.Timestamp)]_vars

\* a call that rang at 1 and was answered at 2 is hung up at 3: two seconds
\* in total, one of them talking
C34_Witness ==
    /\ Len(out) = 1
    /\ out[1].State = StateHungUp
    /\ out[1].Timestamp = 3
    /\ out[1].TotalDuration = 2
    /\ out[1].TalkDuration = 1

\* C37: what Process returned for the last record is at most one change, and
\* that change carries the Linkedid of the record.
C37_OneChangePerRecord ==
    /\ Len(out) <= 1
    /\ \A i \in 1..Len(out) : out[i].CallID = Lid(evt)

\* with c1 and c2 both active, a record of c2 returns one change, for c2
C37_Witness ==
    /\ Len(out) = 1
    /\ out[1].CallID = "c2"
    /\ Lid(evt) = "c2"
    /\ "c1" \in DOMAIN calls

\* C38: as long as a CallRecord stays in the active set, a flag (rung,
\* answered, cancelled) that is set stays set, a ring or answer time that is
\* set keeps its value, a time is set together with its flag, and the from
\* endpoint is the one the record was created with.
C38_FlagsMonotone ==
    [][\A id \in DOMAIN calls \cap DOMAIN calls' :
        LET cs == calls[id]
            after == calls'[id]
        IN  /\ cs.rung => after.rung
            /\ cs.answered => after.answered
            /\ cs.cancelled => after.cancelled
            /\ ~IsZero(cs.ringTime) => after.ringTime = cs.ringTime
            /\ ~IsZero(cs.answerTime) => after.answerTime = cs.answerTime
            /\ after.rung = ~IsZero(after.ringTime)
            /\ after.answered = ~IsZero(after.answerTime)
            /\ after.from = cs.from]_vars

\* c1 rang at 1, was cancelled and answered at 2; a DialEnd that reports no
\* cancellation has left it as it was
C38_Witness ==
    /\ "c1" \in DOMAIN calls
    /\ calls["c1"].rung /\ calls["c1"].answered /\ calls["c1"].cancelled
    /\ calls["c1"].ringTime = 1
    /\ calls["c1"].answerTime = 2
    /\ calls["c1"].from.Extension = "1986"
    /\ Type(evt) = "DialEnd"
    /\ Get(evt, "DialStatus") # "CANCEL"

\* C39: every change returned for a call id is returned while a Newchannel
\* record for that id has been processed and no primary-leg Hangup record for
\* it since, and the step that returns its HungUp change is the one that ends
\* that span: no change for the id follows until a Newchannel record for it
\* is processed again.
C39_HungUpIsTerminal ==
    [][\A i \in 1..Len(out') :
        /\ out'[i].CallID \in created
        /\ out'[i].State = StateHungUp => out'[i].CallID \notin created']_vars

\* c1 was hung up and not created again: its Ringing notification returns
\* nothing
C39_Witness ==
    /\ <<"c1", StateHungUp>> \in seen
    /\ "c1" \notin created
    /\ StateNotice(evt, "Ringing")
    /\ Lid(evt) = "c1"
    /\ out = << >>

\* C40: the active set is the set of call ids for which a Newchannel record
\* was processed and no primary-leg Hangup record since, ActiveCalls is its
\* size, a call id enters it with a Newchannel record of that id only and
\* leaves it with a primary-leg Hangup record of that id only.
C40_ActiveSet ==
    /\ [](DOMAIN calls = created /\ ActiveCalls = Cardinality(created))
    /\ [][/\ \A id \in DOMAIN calls' \ DOMAIN calls :
                Dispatched(evt', "Newchannel") /\ Lid(evt') = id
          /\ \A id \in DOMAIN calls \ DOMAIN calls' :
                PrimaryHangup(evt') /\ Lid(evt') = id]_vars

\* c1 was created, rang and lost a secondary leg; at the last clock reading it
\* is still the one active call
C40_Witness ==
    /\ created = {"c1"}
    /\ ActiveCalls = 1
    /\ calls["c1"].rung
    /\ SecondaryHangup(evt)
    /\ Lid(evt) = "c1"
    /\ now = MaxTime

\* the Correlator state with the CallRecord of one call id only
Only(c, id) == [k \in DOMAIN c \cap {id} |-> c[k]]

\* C35: a record of call id A leaves every other call id as it was (not
\* created, not changed, not removed) and returns no change for it; and what
\* Process returns for the record, and what it does to A's CallRecord, is what
\* a Correlator holding A's CallRecord alone returns and does at the same
\* clock reading - so the changes of a call in an interleaved stream are those
\* of its own records processed alone.
C35_CallsIndependent ==
    [][\E id \in {Lid(evt')} : \E alone \in {Process(Only(calls, id), evt', now')} :
           /\ \A other \in (DOMAIN calls \cup DOMAIN calls') \ {id} :
                /\ other \in DOMAIN calls
                /\ other \in DOMAIN calls'
                /\ calls'[other] = calls[other]
                /\ \A i \in 1..Len(out') : out'[i].CallID # other
           /\ alone.out = out'
           /\ alone.calls = Only(calls', id)]_vars

\* c2 has been ringing since 1; c1 is answered at 2, and c2 is as it was
C35_Witness ==
    /\ DOMAIN calls = {"c1", "c2"}
    /\ calls["c2"].rung
    /\ calls["c2"].ringTime = 1
    /\ ~calls["c2"].answered
    /\ Len(out) = 1
    /\ out[1].CallID = "c1"
    /\ out[1].State = StateAnswered
    /\ out[1].Timestamp = 2

\* the step in which Publish returns an error to runSession's loop
PublishFailed == pc = "inPublish" /\ pc' # "inPublish" /\ pubErr' = "error"

\* C36: when Publish returns an error, the loop goes on as after a nil: the
\* failed change leaves the loop, nothing is handed to the publisher again,
\* the Correlator state and the changes returned so far stay as they are and
\* the session is at its next change or at parser.Next; every message handed
\* to Publish, after failures as before, is that of the next change in the
\* order Process returned them, and a record is read only when all were handed.
C36_PublishErrorDropsChange ==
    /\ [][PublishFailed =>
             /\ queue' = Tail(queue)
             /\ pc' = LoopAt(queue')
             /\ pc' \in {"next", "publish"}
             /\ UNCHANGED <<calls, trail, created, published, returned>>]_vars
    /\ [][published' # published =>
             /\ Len(published) < Len(returned)
             /\ published' = Append(published, MessagesOf(returned)[Len(published) + 1])]_vars
    /\ [][returned' # returned => Len(published) = Len(returned)]_vars

\* the Ringing change's Publish returned an error; the session went on, read
\* the "Up" record and the Answered change is now with the publisher
C36_Witness ==
    /\ pubErr = "error"
    /\ pc = "inPublish"
    /\ Len(published) = 2
    /\ published[1].Topic = <<"asterisk", "call", "c1", "ringing">>
    /\ published[2].Topic = <<"asterisk", "call", "c1", "answered">>
    /\ DOMAIN calls = {"c1"}
    /\ calls["c1"].answered

\* the step in which goroutine g's call of method `op` runs and returns
MockStep(g, op) == gor[g].at = "locked" /\ gor'[g].at = "idle" /\ gor[g].call.op = op
\* the message a Publish call records
MessageOf(c) == [Topic |-> c.topic, Payload |-> c.payload]
Payloads(msgs) == [i \in 1..Len(msgs) |-> msgs[i].Payload]

\* C32: the configured error changes only in a SetError call, to its argument;
\* a Publish call that runs while it is not nil returns it and leaves the
\* message list as it was; one that runs while it is nil (never set, or
\* cleared by SetError(nil)) returns nil and appends its message to the list,
\* whose earlier messages stay; SetError itself leaves the list alone.
C32_SetErrorBlocksPublish ==
    [][/\ \A g \in Goroutines :
            /\ MockStep(g, "Publish") =>
                    /\ mret'.g = g /\ mret'.call = gor[g].call
                    /\ IF mock.err # "nil"
                       THEN mret'.val = mock.err /\ mock'.messages = mock.messages
                       ELSE /\ mret'.val = "nil"
                            /\ mock'.messages = Append(mock.messages, MessageOf(gor[g].call))
            /\ MockStep(g, "SetError") =>
                    mock'.err = gor[g].call.err /\ mock'.messages = mock.messages
       /\ mock'.err # mock.err => \E g \in Goroutines : MockStep(g, "SetError")]_vars

\* call 1 published, call 3 failed with the error call 2 set, call 4 cleared
\* the error and call 5 published: the list holds the messages of 1 and 5
C32_Witness ==
    /\ Len(took) = 3
    /\ took[1].payload = 1 /\ took[1].val = "nil"
    /\ took[2].payload = 3 /\ took[2].val = "broker down"
    /\ took[3].payload = 5 /\ took[3].val = "nil"
    /\ Payloads(mock.messages) = <<1, 5>>
    /\ mock.err = "nil"

\* the Publish calls that returned nil since the last Reset, in the order
\* they ran
SinceReset == SelectSeq(SubSeq(took, resetAt + 1, Len(took)), LAMBDA t : t.val = "nil")

\* C33: whatever the interleaving, one goroutine at a time is inside a method;
\* the message list holds one message per Publish call that returned nil
\* since the last Reset, in the order those calls ran, no payload twice, and
\* the calls of one goroutine in the order it made them; Messages returns
\* that list; Reset empties it and leaves closed and err as they were.
C33_MockIsLinearizable ==
    /\ [](/\ Payloads(mock.messages) = [i \in 1..Len(SinceReset) |-> SinceReset[i].payload]
          /\ \A i, j \in 1..Len(mock.messages) :
                /\ i # j => mock.messages[i].Payload # mock.messages[j].Payload
                /\ (i < j /\ SinceReset[i].g = SinceReset[j].g) =>
                        mock.messages[i].Payload < mock.messages[j].Payload
          /\ \A g, h \in Goroutines :
                (gor[g].at = "locked" /\ gor[h].at = "locked") => (g = h /\ mu = g))
    /\ [][\A g \in Goroutines :
            /\ MockStep(g, "Messages") =>
                    /\ mret'.g = g /\ mret'.val = mock.messages
                    /\ mock' = mock
            /\ MockStep(g, "Reset") =>
                    /\ mock'.messages = << >>
                    /\ mock'.closed = mock.closed
                    /\ mock'.err = mock.err
            /\ MockStep(g, "Close") => mock' = [mock EXCEPT !.closed = TRUE]]_vars

\* two goroutines published concurrently, 2 before 1; after Close and
\* SetError a Reset emptied the list and left the flag and the error set
C33_Witness ==
    /\ Len(took) = 2
    /\ took[1].payload = 2 /\ took[2].payload = 1
    /\ took[1].g # took[2].g
    /\ resetAt = 2
    /\ mock.messages = << >>
    /\ mock.closed
    /\ mock.err = "broker down"
    /\ mret # << >> /\ mret.call.op = "Reset"

\* the defaults the README documents, "" for the two required fields
DocumentedDefaults ==
    [k \in ConfigKeys |->
        CASE k = "ami.host" -> "127.0.0.1"
          [] k = "ami.port" -> [int |-> TRUE, n |-> 5038]
          [] k = "mqtt.broker" -> "tcp://localhost:1883"
          [] k = "mqtt.client_id" -> "asterisk-mqtt"
          [] k = "mqtt.topic_prefix" -> "asterisk"
          [] OTHER -> ""]
\* the value a key has once the file is read over the documented defaults
Effective(file, k) == IF file.doc[k] = << >> THEN DocumentedDefaults[k] ELSE file.doc[k][1]
\* the checks in the order of the claim, and whether the file fails check i
CheckOrder ==
    <<"ami.host", "ami.port", "ami.username", "ami.secret",
      "mqtt.broker", "mqtt.client_id", "mqtt.topic_prefix">>
Fails(file, i) ==
    IF CheckOrder[i] = "ami.port"
    THEN Effective(file, "ami.port").n < 1 \/ Effective(file, "ami.port").n > 65535
    ELSE Effective(file, CheckOrder[i]) = ""
ErrorOf(i) ==
    IF CheckOrder[i] = "ami.port" THEN "ami.port must be between 1 and 65535, got"
    ELSE <<"ami.host is required", "", "ami.username is required", "ami.secret is required",
           "mqtt.broker is required", "mqtt.client_id is required",
           "mqtt.topic_prefix is required">>[i]
WellTyped(file) ==
    file.kind = "yaml" /\ (file.doc["ami.port"] = << >> \/ file.doc["ami.port"][1].int)

\* C31: Load returns either a Config and no error or an error and no Config;
\* it returns an error for a file that cannot be read, for one that is not
\* YAML, and for a document that fails a check, and then the error is that of
\* the first check the document fails in the order host, port, username,
\* secret, broker, client_id, topic_prefix; a document that passes them all is
\* loaded with every key it leaves out at its documented default - so one with
\* ami.username and ami.secret only is loaded with the five defaults.
C31_LoadValidates ==
    cfgOut # << >> =>
        /\ (cfgOut[1].err = << >>) # (cfgOut[1].cfg = << >>)
        /\ cfgIn.kind \in {"unreadable", "invalid"} => cfgOut[1].err # << >>
        /\ WellTyped(cfgIn) =>
             /\ \A i \in 1..Len(CheckOrder) :
                    (Fails(cfgIn, i) /\ \A j \in 1..(i - 1) : ~Fails(cfgIn, j)) =>
                        /\ cfgOut[1].cfg = << >>
                        /\ cfgOut[1].err[1] = ErrorOf(i)
             /\ (\A i \in 1..Len(CheckOrder) : ~Fails(cfgIn, i)) =>
                    /\ cfgOut[1].err = << >>
                    /\ cfgOut[1].cfg[1] =
                         [AMI |-> [Host |-> Effective(cfgIn, "ami.host"),
                                   Port |-> Effective(cfgIn, "ami.port").n,
                                   Username |-> Effective(cfgIn, "ami.username"),
                                   Secret |-> Effective(cfgIn, "ami.secret")],
                          MQTT |-> [Broker |-> Effective(cfgIn, "mqtt.broker"),
                                    ClientID |-> Effective(cfgIn, "mqtt.client_id"),
                                    TopicPrefix |-> Effective(cfgIn, "mqtt.topic_prefix")]]

\* a document with ami.username and ami.secret only was loaded
C31_Witness ==
    /\ cfgOut # << >>
    /\ cfgIn.kind = "yaml"
    /\ \A k \in ConfigKeys : (cfgIn.doc[k] # << >>) <=> (k \in {"ami.username", "ami.secret"})
    /\ cfgIn.doc["ami.username"] = <<"admin">>
    /\ cfgIn.doc["ami.secret"] = <<"s3cret">>
    /\ cfgOut[1].err = << >>
    /\ cfgOut[1].cfg[1].AMI.Port = 5038
    /\ cfgOut[1].cfg[1].MQTT.TopicPrefix = "asterisk"
====
